---- MODULE Spec2Model ----
(***************************************************************************)
(* Model of the chat page of the home-services client                      *)
(* (src/src/app/chat/page.tsx): the three kinds of streamed turn           *)
(* (startInitialDiagnosis, handleSend, handleRegenerate), the snapshot     *)
(* extraction they run on the growing response buffer, the conversation    *)
(* store they write to and the location/provider side workflow.            *)
(*                                                                         *)
(* Text is modelled as a sequence of one-character strings so that the     *)
(* regular expressions and JSON.parse of the source are computed, not      *)
(* assumed.                                                                *)
(***************************************************************************)
EXTENDS Integers, Sequences, FiniteSets, TLC

\* ------------------------------------------------------------------------
\* Text primitives
\* ------------------------------------------------------------------------

LowerMap == "A" :> "a" @@ "B" :> "b" @@ "C" :> "c" @@ "D" :> "d" @@ "E" :> "e" @@ "F" :> "f" @@ "G" :> "g" @@ "H" :> "h" @@ "I" :> "i" @@ "J" :> "j" @@ "K" :> "k" @@ "L" :> "l" @@ "M" :> "m" @@ "N" :> "n" @@ "O" :> "o" @@ "P" :> "p" @@ "Q" :> "q" @@ "R" :> "r" @@ "S" :> "s" @@ "T" :> "t" @@ "U" :> "u" @@ "V" :> "v" @@ "W" :> "w" @@ "X" :> "x" @@ "Y" :> "y" @@ "Z" :> "z"

UpperCase == DOMAIN LowerMap

\* String.prototype.toLowerCase on one character (also the /i flag).
Lower(c) == IF c \in UpperCase THEN LowerMap[c] ELSE c

\* \s of the regular expressions, and the characters String.trim removes.
IsWs(c) == c \in {" ", "\n"}

MinOf(S) == CHOOSE x \in S : \A y \in S : x <= y

MaxOf(S) == CHOOSE x \in S : \A y \in S : x >= y

\* Character c is p (lower case), ignoring case.
SameChar(c, p) == c = p \/ Lower(c) = p

\* pat (lower case) occurs in s at index i, ignoring case.
MatchAt(s, i, pat) ==
    /\ i >= 1
    /\ i + Len(pat) - 1 <= Len(s)
    /\ \A k \in 1..Len(pat) : SameChar(s[i + k - 1], pat[k])

\* Index of the first occurrence of pat in s at or after from; 0 when none.
IndexFrom(s, pat, from) ==
    LET c == {i \in from..(Len(s) - Len(pat) + 1) :
                 SameChar(s[i], pat[1]) /\ MatchAt(s, i, pat)}
    IN  IF c = {} THEN 0 ELSE MinOf(c)

\* Index of the last occurrence of pat in s; 0 when none.
LastIndexOf(s, pat) ==
    LET c == {i \in 1..(Len(s) - Len(pat) + 1) :
                 SameChar(s[i], pat[1]) /\ MatchAt(s, i, pat)}
    IN  IF c = {} THEN 0 ELSE MaxOf(c)

\* s.toLowerCase().includes(pat)
Includes(s, pat) == IndexFrom(s, pat, 1) # 0

\* s.endsWith(pat)
EndsWith(s, pat) == Len(s) >= Len(pat) /\ MatchAt(s, Len(s) - Len(pat) + 1, pat)

\* First index at or after i that holds no white space (Len(s)+1 when none).
SkipWs(s, i) ==
    LET c == {j \in i..Len(s) : ~IsWs(s[j])}
    IN  IF i > Len(s) THEN i
        ELSE IF ~IsWs(s[i]) THEN i
        ELSE IF c = {} THEN Len(s) + 1 ELSE MinOf(c)

\* String.prototype.trim
Trim(s) ==
    LET c == {j \in 1..Len(s) : ~IsWs(s[j])}
    IN  IF s = <<>> THEN s
        ELSE IF ~IsWs(s[1]) /\ ~IsWs(s[Len(s)]) THEN s
        ELSE IF c = {} THEN <<>> ELSE SubSeq(s, MinOf(c), MaxOf(c))

\* s.replace(/p1|p2|.../gi, ''): a left-to-right scan dropping every match.
RECURSIVE RemoveAllFrom(_, _, _)
RemoveAllFrom(s, pats, i) ==
    LET at  == [n \in 1..Len(pats) |-> IndexFrom(s, pats[n], i)]
        hit == {n \in 1..Len(pats) : at[n] # 0}
    IN  IF hit = {} THEN SubSeq(s, i, Len(s))
        ELSE LET m == MinOf({at[n] : n \in hit})
                 p == MinOf({n \in hit : at[n] = m})
             IN  SubSeq(s, i, m - 1) \o RemoveAllFrom(s, pats, m + Len(pats[p]))

RemoveAll(s, pats) == RemoveAllFrom(s, pats, 1)

\* The character U+0060, which a TLA+ string literal cannot hold.
Tick == "tick"

\* ------------------------------------------------------------------------
\* Literals of the source
\* ------------------------------------------------------------------------

TagJsonOpen == <<"<","j","s","o","n",">">>

TagJsonClose == <<"<","/","j","s","o","n",">">>

TagDataOpen == <<"<","d","i","a","g","n","o","s","i","s","_","d","a","t","a",">">>

TagDataClose == <<"<","/","d","i","a","g","n","o","s","i","s","_","d","a","t","a",">">>

TagThoughtOpen == <<"<","t","h","o","u","g","h","t",">">>

TagThoughtClose == <<"<","/","t","h","o","u","g","h","t",">">>

TagProcessOpen == <<"<","t","h","o","u","g","h","t","_","p","r","o","c","e","s","s",">">>

TagProcessClose == <<"<","/","t","h","o","u","g","h","t","_","p","r","o","c","e","s","s",">">>

FenceThought == <<Tick,Tick,Tick,"t","h","o","u","g","h","t">>

FenceJson == <<Tick,Tick,Tick,"j","s","o","n">>

Fence == <<Tick,Tick,Tick>>

QuotedTrade == <<"\"","t","r","a","d","e","\"">>

KeyDiagnosis == <<"d","i","a","g","n","o","s","i","s">>

KeyTrade == <<"t","r","a","d","e">>

KeyMessage == <<"m","e","s","s","a","g","e">>

KeyAction == <<"a","c","t","i","o","n","_","r","e","q","u","i","r","e","d">>

KeyCost == <<"e","s","t","i","m","a","t","e","d","_","c","o","s","t">>

KeyThinking == <<"t","h","i","n","k","i","n","g">>

LBrace == <<"{">>

RBrace == <<"}">>

\* ------------------------------------------------------------------------
\* Snapshot extraction (regular expressions of the read loops)
\* ------------------------------------------------------------------------

NoMatch == [found |-> FALSE, body |-> <<>>]

\* /<(?:o1|o2)>([\s\S]*?)(?:<\/(?:c1|c2)>|$)/i, and the same expression with
\* \s* in front of the closing tag (wsClose): the left-most opening tag, then
\* the shortest capture that is followed by a closing tag or the end.
TagMatch(text, opens, closes, wsClose) ==
    LET os == {IndexFrom(text, opens[n], 1) : n \in 1..Len(opens)} \ {0}
    IN  IF os = {} THEN NoMatch
        ELSE LET o  == MinOf(os)
                 on == CHOOSE n \in 1..Len(opens) : MatchAt(text, o, opens[n])
                 st == o + Len(opens[on])
                 cs == {IndexFrom(text, closes[n], st) : n \in 1..Len(closes)} \ {0}
                 c  == IF cs = {} THEN Len(text) + 1 ELSE MinOf(cs)
                 \* with \s* the capture also stops before the white space
                 \* that directly precedes the closing tag
                 ws == {p \in st..c : \A j \in p..(c - 1) : IsWs(text[j])}
                 e  == IF wsClose /\ cs # {} THEN MinOf(ws) ELSE c
             IN  [found |-> TRUE, body |-> SubSeq(text, st, e - 1)]

\* /'''thought\s*([\s\S]*?)(?:'''|$)/i (''' written for the fence of three
\* backticks), and with \s* in front of the closing
\* fence (wsClose).
FenceMatch(text, wsClose) ==
    LET o == IndexFrom(text, FenceThought, 1)
    IN  IF o = 0 THEN NoMatch
        ELSE LET st == SkipWs(text, o + Len(FenceThought))
                 f  == IndexFrom(text, Fence, st)
                 c  == IF f = 0 THEN Len(text) + 1 ELSE f
                 ws == {p \in st..c : \A j \in p..(c - 1) : IsWs(text[j])}
                 e  == IF wsClose /\ f # 0 THEN MinOf(ws) ELSE c
             IN  [found |-> TRUE, body |-> SubSeq(text, st, e - 1)]

\* thoughtMatch of startInitialDiagnosis: tags first, else the fenced block.
ThoughtMatchInitial(text) ==
    LET t == TagMatch(text, <<TagThoughtOpen, TagProcessOpen>>,
                      <<TagThoughtClose, TagProcessClose>>, FALSE)
    IN  IF t.found THEN t ELSE FenceMatch(text, FALSE)

\* thoughtMatch of handleSend.
ThoughtMatchSend(text) ==
    LET t == TagMatch(text, <<TagThoughtOpen, TagProcessOpen>>,
                      <<TagThoughtClose, TagProcessClose>>, TRUE)
    IN  IF t.found THEN t ELSE FenceMatch(text, TRUE)

\* thoughtMatch of handleRegenerate: tags only.
ThoughtMatchRegenerate(text) ==
    TagMatch(text, <<TagThoughtOpen, TagProcessOpen>>,
             <<TagThoughtClose, TagProcessClose>>, TRUE)

\* The clean-up applied to thoughtMatch[1].
CleanThinking(body) ==
    Trim(RemoveAll(RemoveAll(RemoveAll(body,
        <<TagThoughtOpen, TagProcessOpen, TagThoughtClose, TagProcessClose>>),
        <<FenceThought>>), <<Fence>>))

\* fullText.match(/<json>([\s\S]*?)(?:<\/json>|$)/i)
JsonTagMatch(text) == TagMatch(text, <<TagJsonOpen>>, <<TagJsonClose>>, FALSE)

\* jsonMatch of handleRegenerate, which also accepts <diagnosis_data>.
JsonTagMatchRegenerate(text) ==
    TagMatch(text, <<TagJsonOpen, TagDataOpen>>, <<TagJsonClose, TagDataClose>>, TRUE)

\* fullText.match(/\{[\s\S]*\}/): first '{' to last '}'.
AnyJsonMatch(text) ==
    LET f == IndexFrom(text, LBrace, 1)
        l == LastIndexOf(text, RBrace)
    IN  IF f = 0 \/ l < f THEN NoMatch
        ELSE [found |-> TRUE, body |-> SubSeq(text, f, l)]

\* jsonText.trim().replace(/^'''json\s*/i, '').replace(/'''$/i, '').trim(),
\* ''' written for the fence of three backticks.
Cleaned(jsonText) ==
    LET a == Trim(jsonText)
        b == IF MatchAt(a, 1, FenceJson)
             THEN SubSeq(a, SkipWs(a, Len(FenceJson) + 1), Len(a)) ELSE a
        c == IF EndsWith(b, Fence) THEN SubSeq(b, 1, Len(b) - Len(Fence)) ELSE b
    IN  Trim(c)

\* cleaned.match(/"trade"\s*:\s*"([^"]+)"/i) at one candidate position.
TradeAt(s, i) ==
    LET colon == SkipWs(s, i + Len(QuotedTrade))
        open  == SkipWs(s, colon + 1)
        close == IndexFrom(s, <<"\"">>, open + 1)
    IN  IF /\ MatchAt(s, i, QuotedTrade)
           /\ colon <= Len(s) /\ s[colon] = ":"
           /\ open <= Len(s) /\ s[open] = "\""
           /\ close > open + 1
        THEN [found |-> TRUE, body |-> SubSeq(s, open + 1, close - 1)]
        ELSE NoMatch

\* tradeMatch: the left-most position at which the expression matches.
TradeMatch(cleaned) ==
    LET c == {i \in 1..Len(cleaned) : cleaned[i] = "\"" /\ TradeAt(cleaned, i).found}
    IN  IF c = {} THEN NoMatch ELSE TradeAt(cleaned, MinOf(c))

\* A parse without tail repair.
ToParseUncut(cleaned, isComplete) == cleaned

\* A tail repair that closes the open string and the object of an
\* incomplete fragment.
ToParseClosing(cleaned, isComplete) ==
    IF ~isComplete /\ ~EndsWith(cleaned, RBrace)
    THEN cleaned \o <<"\"", "}">>
    ELSE cleaned

\* The tail repair in front of JSON.parse: an incomplete fragment that does
\* not end with '}' is cut after its last '}'.
ToParse(cleaned, isComplete) ==
    IF ~isComplete /\ ~EndsWith(cleaned, RBrace)
    THEN LET lastBrace == LastIndexOf(cleaned, RBrace)
         IN  IF lastBrace # 0 THEN SubSeq(cleaned, 1, lastBrace) ELSE cleaned
    ELSE cleaned

\* ------------------------------------------------------------------------
\* JSON.parse, for objects whose members are strings
\* ------------------------------------------------------------------------

ParseFail == [ok |-> FALSE, obj |-> <<>>, next |-> 0]

RECURSIVE StringEnd(_, _)

\* The quote that closes the JSON string whose text starts at s[j]: the
\* first one that no backslash escapes; 0 when there is none.
StringEnd(s, j) ==
    IF j > Len(s) THEN 0
    ELSE IF s[j] = "\"" THEN j
    ELSE IF s[j] = "\\" THEN StringEnd(s, j + 2)
    ELSE StringEnd(s, j + 1)

\* The escapes of the texts: \" \\ \/ \n \t.
EscapeOf(c) == CASE c = "n" -> "\n" [] c = "t" -> "\t" [] OTHER -> c

RECURSIVE EscapesOk(_)

\* Is every backslash of the string text followed by one of the escapes?
EscapesOk(v) ==
    IF v = <<>> THEN TRUE
    ELSE IF v[1] = "\\"
         THEN Len(v) >= 2 /\ v[2] \in {"\"", "\\", "/", "n", "t"} /\ EscapesOk(SubSeq(v, 3, Len(v)))
         ELSE EscapesOk(Tail(v))

RECURSIVE Unescaped(_)

\* The value of a string text whose escapes are in order.
Unescaped(v) ==
    IF v = <<>> THEN <<>>
    ELSE IF v[1] = "\\" THEN <<EscapeOf(v[2])>> \o Unescaped(SubSeq(v, 3, Len(v)))
    ELSE <<v[1]>> \o Unescaped(Tail(v))

\* A JSON string starting at s[i]: no raw line break inside.
ParseString(s, i) ==
    IF i > Len(s) \/ s[i] # "\"" THEN [ok |-> FALSE, val |-> <<>>, next |-> 0]
    ELSE LET e == StringEnd(s, i + 1)
         IN  IF e = 0 \/ (\E j \in (i + 1)..(e - 1) : s[j] = "\n")
                      \/ ~EscapesOk(SubSeq(s, i + 1, e - 1))
             THEN [ok |-> FALSE, val |-> <<>>, next |-> 0]
             ELSE [ok |-> TRUE, val |-> Unescaped(SubSeq(s, i + 1, e - 1)), next |-> e + 1]

RECURSIVE ParseMembers(_, _, _)

\* After a member: '}' ends the object, ',' starts the next member.
MemberEnd(s, n, acc) ==
    IF n > Len(s) THEN ParseFail
    ELSE IF s[n] = "}" THEN [ok |-> TRUE, obj |-> acc, next |-> n + 1]
    ELSE IF s[n] = "," THEN ParseMembers(s, SkipWs(s, n + 1), acc)
    ELSE ParseFail

\* The value v of the member with key k.
MemberValue(s, k, v, acc) ==
    IF ~v.ok THEN ParseFail
    ELSE MemberEnd(s, SkipWs(s, v.next), Append(acc, <<k.val, v.val>>))

\* The colon at c between key k and its value.
MemberColon(s, k, c, acc) ==
    IF c > Len(s) THEN ParseFail
    ELSE IF s[c] # ":" THEN ParseFail
    ELSE MemberValue(s, k, ParseString(s, SkipWs(s, c + 1)), acc)

\* The key k of a member.
MemberKey(s, k, acc) ==
    IF ~k.ok THEN ParseFail ELSE MemberColon(s, k, SkipWs(s, k.next), acc)

\* The members of an object from s[i] on, appended to acc.
ParseMembers(s, i, acc) == MemberKey(s, ParseString(s, i), acc)

\* The object whose '{' is at s[b]: nothing but white space may follow it.
ParseObject(s, r) ==
    IF r.ok /\ SkipWs(s, r.next) > Len(s) THEN r ELSE ParseFail

\* The text after '{', from s[m] on.
ParseBody(s, m) ==
    IF m <= Len(s) /\ s[m] = "}"
    THEN ParseObject(s, [ok |-> TRUE, obj |-> <<>>, next |-> m + 1])
    ELSE ParseObject(s, ParseMembers(s, m, <<>>))

\* JSON.parse at the first character s[b] that is no white space.
ParseAt(s, b) ==
    IF b > Len(s) THEN ParseFail
    ELSE IF s[b] # "{" THEN ParseFail
    ELSE ParseBody(s, SkipWs(s, b + 1))

\* JSON.parse(s): ok is FALSE where the source's call throws.  The object is
\* the sequence of its <<key, value>> members.
JsonParse(s) == ParseAt(s, SkipWs(s, 1))

\* obj[key], with a missing member read as the empty string (both are falsy
\* in every test the source makes); the last duplicate wins as in JSON.parse.
Field(obj, key) ==
    LET c == {n \in 1..Len(obj) : obj[n][1] = key}
    IN  IF c = {} THEN <<>> ELSE obj[MaxOf(c)][2]

HasField(obj, key) == \E n \in 1..Len(obj) : obj[n][1] = key

\* { thinking, ...parsedJson } as a DiagnosisData value.
DiagnosisOf(thinking, obj) ==
    [thinking        |-> IF HasField(obj, KeyThinking) THEN Field(obj, KeyThinking) ELSE thinking,
     diagnosis       |-> Field(obj, KeyDiagnosis),
     trade           |-> Field(obj, KeyTrade),
     action_required |-> Field(obj, KeyAction),
     estimated_cost  |-> Field(obj, KeyCost),
     message         |-> Field(obj, KeyMessage)]

\* ------------------------------------------------------------------------
\* Inputs: response streams and user texts
\* ------------------------------------------------------------------------

\* Reasoning, then a tagged record with its closing tag, then more text.
StreamTagged ==
    <<<<"<","t","h","o","u","g","h","t",">","C","h","e","c","k"," ","p","i","p","e","<","/","t","h","o","u","g","h","t",">">>,
      <<"<","j","s","o","n",">","{","\"","d","i","a","g","n","o","s","i","s","\"",":","\"","L","e","a","k","\"",",","\"","t","r","a","d","e","\"",":","\"","P","l","u","m","b","e","r","\"","}","<","/","j","s","o","n",">">>,
      <<"\n","o","k">>>>

\* No tag at all: a bare JSON object.
StreamBare ==
    <<<<"{","\"","d","i","a","g","n","o","s","i","s","\"",":","\"","L","e","a","k","\"",",">>,
      <<"\"","t","r","a","d","e","\"",":","\"","P","l","u","m","b","e","r","\"","}">>>>

\* A closed record without a diagnosis member.
StreamNoDiagnosis ==
    <<<<"<","j","s","o","n",">","{","\"","t","r","a","d","e","\"",":","\"","P","l","u","m","b","e","r","\"","}","<","/","j","s","o","n",">">>>>

\* The bodies /api/diagnose can stream, each a sequence of pieces; a read
\* delivers one or more consecutive pieces as one chunk.
Streams == {StreamTagged, StreamBare, StreamNoDiagnosis}

\* What the user can type into the footer.
TextHi == <<"h","i">>

TextWho == <<"w","h","o">>

UserTexts == {TextHi, TextWho}

WordProvider == <<"p","r","o","v","i","d","e","r">>

WordContact == <<"c","o","n","t","a","c","t">>

WordWho == <<"w","h","o">>

TextIdentified == <<"I"," ","i","d","e","n","t","i","f","i","e","d"," ","a"," ">>

TextUndefined == <<"u","n","d","e","f","i","n","e","d">>

TextNewDiagnosis == <<"N","e","w"," ","D","i","a","g","n","o","s","i","s">>

TextCurrentLocation == <<"C","u","r","r","e","n","t"," ","L","o","c","a","t","i","o","n">>

\* ------------------------------------------------------------------------
\* Bounds
\* ------------------------------------------------------------------------

\* Turns (initial diagnosis, follow-up, regenerate) started in one session.
MaxTurns == 2

\* Location requests the browser keeps; a request beyond this is dropped
\* unanswered.
MaxGeo == 1

\* File reads that can be out at one time, and files of one selection.
MaxReads == 6

MaxFiles == 5

\* Turns of a session in which the browser answers location requests.
MaxSideTurns == 1

\* ------------------------------------------------------------------------
\* State
\* ------------------------------------------------------------------------

VARIABLES
    ui,                   \* the React state of ResultsContent
    memo,                 \* the render captured by the memoised fetchProviders
    diagnosisStartedRef,  \* diagnosisStartedRef.current
    queuedStarted,        \* a setHasStartedDiagnosis call not yet rendered
    loadPc,               \* position of the init effect
    turns,                \* the invocations of the three turn handlers
    conversation,         \* the row of table conversations for this id
    dbMessages,           \* the rows of table messages for this id
    imageStore,           \* the pending image of lib/image-store
    geoRequests,          \* location requests and the workflow they started
    sideToasts,           \* toasts raised outside a turn
    earlyReturn,          \* a call of startInitialDiagnosis returned at its guard
    fileReads             \* file reads of handleFilesChosen that have not called back

vars == <<ui, memo, diagnosisStartedRef, queuedStarted, loadPc, turns,
          conversation, dbMessages, imageStore, geoRequests, sideToasts, earlyReturn, fileReads>>

\* null / a value, as a sequence of length 0 / 1.
None == <<>>

Some(x) == <<x>>

\* Truthiness of a string.
Truthy(s) == Len(s) > 0

\* a || b on strings.
OrElse(a, b) == IF Truthy(a) THEN a ELSE b

\* diagnosis?.field, undefined read as the empty string.
DiagField(d, f) == IF d = None THEN <<>> ELSE d[1][f]

EmptyDiagnosis ==
    [thinking |-> <<>>, diagnosis |-> <<>>, trade |-> <<>>,
     action_required |-> <<>>, estimated_cost |-> <<>>, message |-> <<>>]

\* What a function created during a render sees of the state.
Closure(u) ==
    [diagnosis |-> u.diagnosis, userLocation |-> u.userLocation,
     providers |-> u.providers, imageSrc |-> u.imageSrc]

\* State updates of an unmounted component are dropped.
SetState(new) == IF ui.mounted THEN new ELSE ui

\* A render: the state changes, and fetchProviders (useCallback on
\* diagnosis?.trade) is re-created only when the trade changed.
Render(new) ==
    /\ ui' = SetState(new)
    /\ memo' = IF DiagField(SetState(new).diagnosis, "trade") # DiagField(ui.diagnosis, "trade")
               THEN Closure(SetState(new)) ELSE memo

Image1 == "image-1"

Image2 == "image-2"

\* The pending image of an upload made for another conversation.
ImageOther == "image-other"

\* imageData.id === id.
ForThisId(image) == image # ImageOther

Location1 == [lat |-> 1, lng |-> 2, address |-> TextCurrentLocation]

Providers1 == <<"provider-1">>

\* The DiagnosisRecord of a conversation opened from the store.
StoredDiagnosis ==
    [thinking |-> <<>>, diagnosis |-> <<"L","e","a","k">>,
     trade |-> <<"P","l","u","m","b","e","r">>,
     action_required |-> <<>>, estimated_cost |-> <<>>, message |-> <<>>]

StoredRow ==
    [title |-> StoredDiagnosis.diagnosis, image_url |-> Some(Image1), loc |-> None,
     diagnosis_json |-> Some(StoredDiagnosis), providers_json |-> <<>>]

StoredMessages ==
    << [conversation_id |-> 1, role |-> "assistant",
        content |-> TextIdentified \o StoredDiagnosis.diagnosis, has_updated_diagnosis |-> FALSE],
       [conversation_id |-> 1, role |-> "user",
        content |-> TextHi, has_updated_diagnosis |-> FALSE],
       [conversation_id |-> 1, role |-> "assistant",
        content |-> StoredDiagnosis.diagnosis, has_updated_diagnosis |-> FALSE] >>

\* ------------------------------------------------------------------------
\* lib/image-store: memoryStore and the sessionStorage entry
\* ------------------------------------------------------------------------

\* sessionStorage that throws on every access (storage disabled).
Denied == <<"access", "denied">>

\* An entry of sessionStorage that JSON.parse rejects.
Corrupt == <<"{">>

\* JSON.stringify of an image record, and JSON.parse of a stored entry
\* (None for a SyntaxError).
Stringify(image) == <<"{", image, "}">>

ParseStored(stored) ==
    IF Len(stored) = 3 /\ stored[1] = "{" /\ stored[3] = "}" THEN Some(stored[2]) ELSE None

\* The store of a new browser session.
EmptyStore == [memory |-> None, session |-> None]

\* setImageData; writes is FALSE when setItem throws for the quota.
setImageData(store, image, writes) ==
    [memory |-> Some(image),
     session |-> IF store.session = Denied \/ ~writes THEN store.session
                 ELSE Some(Stringify(image))]

\* The image store has thrown out of getImageData.
Threw == <<"threw", "SyntaxError">>

\* A getImageData that reads sessionStorage outside a try block.
getImageDataUncaught(store) ==
    IF store.memory # None THEN store.memory
    ELSE IF store.session = Denied THEN Threw
    ELSE IF store.session = None THEN None
    ELSE IF ParseStored(store.session[1]) = None THEN Threw
    ELSE ParseStored(store.session[1])

\* getImageData: the memory copy, else the parsed entry, else null.
getImageData(store) ==
    IF store.memory # None THEN store.memory
    ELSE IF store.session = Denied THEN None
    ELSE IF store.session = None THEN None
    ELSE ParseStored(store.session[1])

\* clearImageData.
clearImageData(store) ==
    [memory |-> None,
     session |-> IF store.session = Denied THEN Denied ELSE None]

\* The store as the upload page leaves it before it navigates to the chat.
PendingStore(image) == setImageData(EmptyStore, image, TRUE)


InitialUi ==
    [mounted |-> TRUE, isLoaded |-> FALSE, imageSrc |-> None, diagnosis |-> None,
     providers |-> <<>>, messages |-> <<>>, userLocation |-> None,
     isDiagnosing |-> FALSE, hasStartedDiagnosis |-> FALSE, isResponding |-> FALSE,
     isLoadingProviders |-> FALSE, isUploading |-> FALSE, attachments |-> <<>>]

\* The page is opened on a fresh upload (image in the store, nothing
\* persisted), on a persisted conversation, or with neither.
Init ==
    /\ ui = InitialUi
    /\ memo = Closure(InitialUi)
    /\ diagnosisStartedRef = FALSE
    /\ queuedStarted = None
    /\ loadPc = "start"
    /\ turns = <<>>
    /\ \E scenario \in {"fresh", "persisted", "no-image"} :
         /\ imageStore = IF scenario = "fresh" THEN PendingStore(Image1) ELSE EmptyStore
         /\ conversation = IF scenario = "persisted" THEN Some(StoredRow) ELSE None
         /\ dbMessages = IF scenario = "persisted" THEN StoredMessages ELSE <<>>
    /\ geoRequests = <<>>
    /\ sideToasts = 0
    /\ earlyReturn = FALSE
    /\ fileReads = 0


\* The stores the page can find: nothing, the image of this conversation or
\* of another one, in memory and in sessionStorage (client navigation), in
\* sessionStorage only (the page was loaded again), in memory only (the
\* write failed), an entry that does not parse, or no sessionStorage.
CacheStores ==
    {EmptyStore, [memory |-> None, session |-> Denied],
     [memory |-> None, session |-> Some(Corrupt)]}
    \cup UNION {{PendingStore(image),
                 [memory |-> None, session |-> Some(Stringify(image))],
                 [memory |-> Some(image), session |-> None],
                 [memory |-> Some(image), session |-> Denied]} : image \in {Image1, ImageOther}}

\* The page is opened with any of these stores, on a conversation that is
\* persisted or not.
InitCache ==
    /\ ui = InitialUi
    /\ memo = Closure(InitialUi)
    /\ diagnosisStartedRef = FALSE
    /\ queuedStarted = None
    /\ loadPc = "start"
    /\ turns = <<>>
    /\ imageStore \in CacheStores
    /\ \E persisted \in BOOLEAN :
         /\ conversation = IF persisted THEN Some(StoredRow) ELSE None
         /\ dbMessages = IF persisted THEN StoredMessages ELSE <<>>
    /\ geoRequests = <<>>
    /\ sideToasts = 0
    /\ earlyReturn = FALSE
    /\ fileReads = 0
\* ------------------------------------------------------------------------
\* Persistence
\* ------------------------------------------------------------------------

NoOverrides == [diag |-> None, loc |-> None, provs |-> None]

\* The row saveConversation upserts: each column is the override or else
\* the value the calling closure saw.
SaveConversationRow(cl, overrides) ==
    LET finalDiagnosis == IF overrides.diag # None THEN overrides.diag ELSE cl.diagnosis
        finalLocation  == IF overrides.loc # None THEN overrides.loc ELSE cl.userLocation
        finalProviders == IF overrides.provs # None THEN overrides.provs[1] ELSE cl.providers
    IN  [title          |-> OrElse(DiagField(finalDiagnosis, "diagnosis"), TextNewDiagnosis),
         image_url      |-> cl.imageSrc,
         loc            |-> finalLocation,
         diagnosis_json |-> finalDiagnosis,
         providers_json |-> finalProviders]

\* upsert: the payload replaces the row; user_lat, user_lng and user_address
\* are undefined without a location, and an undefined member is not sent.
Upsert(row, payload) ==
    IF row = None \/ payload.loc # None THEN Some(payload)
    ELSE Some([payload EXCEPT !.loc = row[1].loc])

\* The row saveMessage inserts.
MessageRow(role, content, hasUpdatedDiagnosis) ==
    [conversation_id |-> 1, role |-> role, content |-> content,
     has_updated_diagnosis |-> hasUpdatedDiagnosis]

\* A row of table messages as loadConversation maps it.
MappedMessage(m) ==
    [role |-> m.role, content |-> m.content, feedback |-> "none",
     hasUpdatedDiagnosis |-> m.has_updated_diagnosis]

\* ------------------------------------------------------------------------
\* Page lifecycle
\* ------------------------------------------------------------------------

\* The init effect up to its await: the image of the store is shown.
Mount ==
    /\ loadPc = "start"
    /\ ui.mounted
    /\ loadPc' = "loading"
    /\ \E imageData \in {getImageData(imageStore)} :
         Render(IF imageData # None /\ ForThisId(imageData[1])
                THEN [ui EXCEPT !.imageSrc = imageData, !.isDiagnosing = TRUE]
                ELSE ui)
    /\ UNCHANGED <<diagnosisStartedRef, queuedStarted, turns, conversation,
                   dbMessages, imageStore, geoRequests, sideToasts, earlyReturn, fileReads>>

\* An init effect that clears every pending image.
ClearsImageAlways(imageData, loadedMsgs) == imageData # None

\* Step 3 of the init effect: is the pending image cleared?  loadedMsgs is
\* the number of messages loadConversation returned, 0 for null.
ClearsImage(imageData, loadedMsgs) ==
    imageData # None /\ (~ForThisId(imageData[1]) \/ loadedMsgs > 0)

\* What loadConversation applies when the store answered.
LoadedUi(u) ==
    LET conv == conversation
        u1 == IF conv # None /\ conv[1].image_url # None
              THEN [u EXCEPT !.imageSrc = conv[1].image_url] ELSE u
        u2 == IF conv # None /\ conv[1].diagnosis_json # None
              THEN [u1 EXCEPT !.diagnosis = conv[1].diagnosis_json] ELSE u1
        u3 == IF conv # None THEN [u2 EXCEPT !.providers = conv[1].providers_json] ELSE u2
        u4 == IF conv # None /\ conv[1].loc # None
              THEN [u3 EXCEPT !.userLocation = conv[1].loc] ELSE u3
        u5 == IF Len(dbMessages) > 0
              THEN [u4 EXCEPT !.messages = [n \in 1..Len(dbMessages) |-> MappedMessage(dbMessages[n])],
                              !.isDiagnosing = FALSE]
              ELSE u4
    IN  [u5 EXCEPT !.isLoaded = TRUE]

\* loadConversation returns (ok: the store answered; otherwise it failed or
\* timed out), then the rest of the init effect.
LoadDone(ok) ==
    /\ loadPc = "loading"
    /\ loadPc' = "done"
    /\ Render(IF ok THEN LoadedUi(ui) ELSE [ui EXCEPT !.isLoaded = TRUE])
    /\ imageStore' = IF ClearsImage(getImageData(imageStore),
                                    IF ok THEN Len(dbMessages) ELSE 0)
                     THEN clearImageData(imageStore) ELSE imageStore
    /\ UNCHANGED <<diagnosisStartedRef, queuedStarted, turns, conversation,
                   dbMessages, geoRequests, sideToasts, earlyReturn, fileReads>>

\* The 5 s timer of loadConversation wins the race: the catch and finally
\* blocks run and the init effect goes on without messages, while the store
\* fetch is still out.
LoadTimeout ==
    /\ loadPc = "loading"
    /\ loadPc' = "timedout"
    /\ Render([ui EXCEPT !.isLoaded = TRUE])
    /\ imageStore' = IF ClearsImage(getImageData(imageStore), 0)
                     THEN clearImageData(imageStore) ELSE imageStore
    /\ UNCHANGED <<diagnosisStartedRef, queuedStarted, turns, conversation,
                   dbMessages, geoRequests, sideToasts, earlyReturn, fileReads>>

\* A late result that is applied as if the fetch had won the race.
LateResultApplied(u, ok) == IF ok THEN LoadedUi(u) ELSE u

\* What the result of the store fetch does to the state once the timer has
\* won: Promise.race has settled, and nothing reads the promise again.
LateResult(u, ok) == u

\* The store fetch settles after the timer has won the race.
FetchLate(ok) ==
    /\ loadPc = "timedout"
    /\ loadPc' = "done"
    /\ Render(LateResult(ui, ok))
    /\ UNCHANGED <<diagnosisStartedRef, queuedStarted, turns, conversation,
                   dbMessages, imageStore, geoRequests, sideToasts, earlyReturn, fileReads>>

\* handleFallbackUpload up to the file read; NoImageFallback is rendered
\* while the page has no image and its button is disabled while uploading.
handleFallbackUpload ==
    /\ ui.mounted /\ ui.isLoaded /\ ui.imageSrc = None /\ ~ui.isUploading
    /\ Render([ui EXCEPT !.isUploading = TRUE])
    /\ UNCHANGED <<diagnosisStartedRef, queuedStarted, loadPc, turns, conversation,
                   dbMessages, imageStore, geoRequests, sideToasts, earlyReturn, fileReads>>

\* reader.onloadend of handleFallbackUpload; writes is FALSE when the image
\* does not fit into sessionStorage.
UploadDone(writes) ==
    /\ ui.isUploading
    /\ imageStore' = setImageData(imageStore, Image2, writes)
    /\ Render([ui EXCEPT !.imageSrc = Some(Image2), !.isUploading = FALSE])
    /\ queuedStarted' = IF ui.mounted THEN Some(FALSE) ELSE None
    /\ diagnosisStartedRef' = FALSE
    /\ UNCHANGED <<loadPc, turns, conversation, dbMessages, geoRequests,
                   sideToasts, earlyReturn, fileReads>>

\* The render that makes a queued setHasStartedDiagnosis visible to effects.
RenderQueued ==
    /\ queuedStarted # None
    /\ queuedStarted' = None
    /\ Render([ui EXCEPT !.hasStartedDiagnosis = queuedStarted[1]])
    /\ UNCHANGED <<diagnosisStartedRef, loadPc, turns, conversation, dbMessages,
                   imageStore, geoRequests, sideToasts, earlyReturn, fileReads>>

\* The user leaves the page: the component unmounts and its state, its ref
\* and its memoised callbacks are gone; running turns and a running file
\* read (isUploading) go on.  A turn whose stream is open at that moment is
\* marked stale.
Navigate ==
    /\ ui.mounted
    /\ ui' = [InitialUi EXCEPT !.mounted = FALSE, !.isUploading = ui.isUploading]
    /\ memo' = Closure(InitialUi)
    /\ diagnosisStartedRef' = FALSE
    /\ queuedStarted' = None
    /\ turns' = [n \in 1..Len(turns) |->
                    [turns[n] EXCEPT !.stale = turns[n].pc \in {"read", "upsert"}]]
    /\ UNCHANGED <<loadPc, conversation, dbMessages, imageStore, geoRequests,
                   sideToasts, earlyReturn, fileReads>>

\* ------------------------------------------------------------------------
\* Turns
\* ------------------------------------------------------------------------

\* The record of a turn: its position, the locals of its handler and the
\* values its closure captured (messages is the list the handler sees, index
\* the argument of handleRegenerate plus one, 0 for the other handlers).
NewTurn(kind, userMsg, index) ==
    [kind |-> kind, pc |-> "fetch", wire |-> <<>>, fullText |-> <<>>,
     currentThinking |-> <<>>, isSearchTriggered |-> FALSE,
     cl |-> Closure(ui), clMemo |-> memo, userMsg |-> userMsg,
     messages |-> ui.messages, index |-> index,
     pending |-> None, upsert |-> "ok", atEnd |-> FALSE, stale |-> FALSE,
     nUpsert |-> 0, nInsert |-> 0, nGeo |-> 0, nToast |-> 0]

\* A guard that lets every call through.
StartGuardOff(ref) == FALSE

\* The one-shot guard of startInitialDiagnosis.
StartGuard(ref) == ref

\* The 'trigger diagnosis when ready' effect calling startInitialDiagnosis,
\* up to the fetch.
startInitialDiagnosis ==
    /\ ui.mounted /\ ui.isLoaded /\ ui.imageSrc # None
    /\ Len(ui.messages) = 0 /\ ui.diagnosis = None /\ ~ui.hasStartedDiagnosis
    /\ IF StartGuard(diagnosisStartedRef)
       THEN /\ earlyReturn' = TRUE
            /\ UNCHANGED <<ui, memo, diagnosisStartedRef, queuedStarted, turns>>
       ELSE /\ Len(turns) < MaxTurns
            /\ UNCHANGED earlyReturn
            /\ diagnosisStartedRef' = TRUE
            /\ queuedStarted' = Some(TRUE)
            /\ Render([ui EXCEPT !.isDiagnosing = TRUE, !.diagnosis = None])
            /\ turns' = Append(turns, NewTurn("initial", <<>>, 0))
    /\ UNCHANGED <<loadPc, conversation, dbMessages, imageStore, geoRequests, sideToasts,
                   fileReads>>

\* The turn record with index n.
IsTurn(n, kinds, pc) ==
    /\ n \in 1..Len(turns)
    /\ turns[n].kind \in kinds
    /\ turns[n].pc = pc

\* Which busy flag a turn of this kind owns.
BusyFlag(kind) == IF kind = "initial" THEN "isDiagnosing" ELSE "isResponding"

\* A handler that forgets to clear its busy flag.
FinallyKeeps(u, kind) == u

\* Handlers of which only those of the follow-up turns clear their flag.
FinallyResponding(u, kind) ==
    IF kind = "initial" THEN u ELSE [u EXCEPT !.isResponding = FALSE]

\* The finally block of a turn handler.
Finally(u, kind) == [u EXCEPT ![BusyFlag(kind)] = FALSE]

\* Does the catch block of this kind of turn raise a toast?
CatchToasts(kind) == kind = "initial"

\* What fetch('/api/diagnose') can come to.
FetchFailures == {"reject", "not-ok", "not-ok-no-json", "no-body"}

\* Toasts raised on a failed fetch: the not-ok branch reads the error body
\* with res.json(), which only startInitialDiagnosis protects by a catch.
FetchToasts(kind, outcome) ==
    IF outcome = "not-ok" THEN 1
    ELSE IF outcome = "not-ok-no-json" THEN (IF kind = "initial" THEN 1 ELSE 0)
    ELSE IF outcome = "reject" /\ CatchToasts(kind) THEN 1
    ELSE 0

\* A failure path that lets the effect start the diagnosis again.
FailedStartFlagResets(kind, queued) == IF kind = "initial" THEN Some(FALSE) ELSE queued

\* What a failed turn does to hasStartedDiagnosis: the early returns and the
\* catch block of startInitialDiagnosis leave it (and the ref) as set.
FailedStartFlag(kind, queued) == queued

\* The fetch of a turn fails before any chunk is read.
FetchFail(n, outcome) ==
    /\ IsTurn(n, {"initial", "send", "regenerate"}, "fetch")
    /\ outcome \in FetchFailures
    /\ turns' = [turns EXCEPT ![n].pc = "failed",
                              ![n].nToast = @ + FetchToasts(turns[n].kind, outcome)]
    /\ Render(Finally(ui, turns[n].kind))
    /\ queuedStarted' = FailedStartFlag(turns[n].kind, queuedStarted)
    /\ UNCHANGED <<diagnosisStartedRef, loadPc, conversation,
                   dbMessages, imageStore, geoRequests, sideToasts, earlyReturn, fileReads>>

Placeholder ==
    [role |-> "assistant", content |-> <<>>, feedback |-> "none", hasUpdatedDiagnosis |-> FALSE]

\* The fetch answers with a body; a follow-up or regenerate turn appends the
\* placeholder of its assistant message.
FetchOk(n, stream) ==
    /\ IsTurn(n, {"initial", "send", "regenerate"}, "fetch")
    /\ turns' = [turns EXCEPT ![n].pc = "read", ![n].wire = stream]
    /\ Render(IF turns[n].kind = "initial" THEN ui
              ELSE [ui EXCEPT !.messages = Append(@, Placeholder)])
    /\ UNCHANGED <<diagnosisStartedRef, queuedStarted, loadPc, conversation,
                   dbMessages, imageStore, geoRequests, sideToasts, earlyReturn, fileReads>>

\* reader.read() rejects: the catch and finally blocks run.
ReadError(n) ==
    /\ IsTurn(n, {"initial", "send", "regenerate"}, "read")
    /\ turns' = [turns EXCEPT ![n].pc = "failed",
                              ![n].nToast = @ + (IF CatchToasts(turns[n].kind) THEN 1 ELSE 0)]
    /\ Render(Finally(ui, turns[n].kind))
    /\ queuedStarted' = FailedStartFlag(turns[n].kind, queuedStarted)
    /\ UNCHANGED <<diagnosisStartedRef, loadPc, conversation,
                   dbMessages, imageStore, geoRequests, sideToasts, earlyReturn, fileReads>>

RECURSIVE Flatten(_)
\* The text of a sequence of pieces.
Flatten(pieces) ==
    IF pieces = <<>> THEN <<>> ELSE Head(pieces) \o Flatten(Tail(pieces))

\* getCurrentLocation(trade): a position request is pending at the browser.
GetCurrentLocation(reqs, trade, cl) ==
    IF Len(reqs) < MaxGeo
    THEN Append(reqs, [pc |-> "asked", trade |-> trade, cl |-> cl, error |-> FALSE])
    ELSE reqs

\* ---- startInitialDiagnosis: one pass of the read loop -------------------

NoCall == [run |-> FALSE, jsonText |-> <<>>, isComplete |-> FALSE]

\* A final pass that looks for the tagged record only.
FinalCallTagsOnly(text, cl) ==
    IF Truthy(DiagField(cl.diagnosis, "diagnosis")) \/ ~JsonTagMatch(text).found THEN NoCall
    ELSE [run |-> TRUE, jsonText |-> JsonTagMatch(text).body, isComplete |-> TRUE]

\* The final pass at done: tags first, else any JSON object in the text.
FinalCall(text, cl) ==
    LET finalJsonMatch == JsonTagMatch(text)
        anyJsonMatch == AnyJsonMatch(text)
    IN  IF Truthy(DiagField(cl.diagnosis, "diagnosis")) THEN NoCall
        ELSE IF finalJsonMatch.found
             THEN [run |-> TRUE, jsonText |-> finalJsonMatch.body, isComplete |-> TRUE]
        ELSE IF anyJsonMatch.found
             THEN [run |-> TRUE, jsonText |-> anyJsonMatch.body, isComplete |-> TRUE]
        ELSE NoCall

\* A snapshot call that tries the bare braces before the tags.
SnapshotCallBareFirst(text) ==
    IF AnyJsonMatch(text).found
    THEN [run |-> TRUE, jsonText |-> AnyJsonMatch(text).body, isComplete |-> FALSE]
    ELSE IF JsonTagMatch(text).found
         THEN [run |-> TRUE, jsonText |-> JsonTagMatch(text).body,
               isComplete |-> Includes(text, TagJsonClose)]
    ELSE NoCall

\* The call of processJson on a snapshot that is not the last.
SnapshotCall(text) ==
    LET jsonMatch == JsonTagMatch(text)
        anyJsonMatch == AnyJsonMatch(text)
    IN  IF jsonMatch.found
        THEN [run |-> TRUE, jsonText |-> jsonMatch.body,
              isComplete |-> Includes(text, TagJsonClose)]
        ELSE IF anyJsonMatch.found
             THEN [run |-> TRUE, jsonText |-> anyJsonMatch.body, isComplete |-> FALSE]
        ELSE NoCall

\* A trade detection that does not look at the isSearchTriggered flag.
EarlyTradeAlways(isSearchTriggered, cleaned) ==
    IF TradeMatch(cleaned).found /\ Truthy(TradeMatch(cleaned).body)
    THEN Some(TradeMatch(cleaned).body) ELSE None

\* The early trade detection of processJson.
EarlyTrade(isSearchTriggered, cleaned) ==
    LET tradeMatch == TradeMatch(cleaned)
    IN  IF ~isSearchTriggered /\ tradeMatch.found /\ Truthy(tradeMatch.body)
        THEN Some(tradeMatch.body) ELSE None

\* A snapshot step without its catch block: the SyntaxError of JSON.parse
\* leaves the step.
ParseUncaught(parsed) == ~parsed.ok

\* try { JSON.parse ... } catch (e) { } of the snapshot step: does an
\* exception of the block leave the step?  The catch block is empty and
\* swallows every one.
ParseEscapes(parsed) == FALSE

\* A processJson that accepts every object JSON.parse returns.
ProcessParsedAny(cleaned, parsed, thinking, isComplete, isSearchTriggered) ==
    [trigger  |-> EarlyTrade(isSearchTriggered, cleaned),
     threw    |-> FALSE,
     accepted |-> parsed.ok,
     diag     |-> DiagnosisOf(thinking, parsed.obj),
     commit   |-> parsed.ok /\ isComplete,
     content  |-> OrElse(Field(parsed.obj, KeyMessage),
                         TextIdentified \o Field(parsed.obj, KeyDiagnosis) \o <<".">>)]

\* A processJson that empties the record when JSON.parse throws.
ProcessParsedResets(cleaned, parsed, thinking, isComplete, isSearchTriggered) ==
    [trigger  |-> EarlyTrade(isSearchTriggered, cleaned),
     threw    |-> FALSE,
     accepted |-> ~parsed.ok \/ Truthy(Field(parsed.obj, KeyDiagnosis)),
     diag     |-> DiagnosisOf(thinking, parsed.obj),
     commit   |-> parsed.ok /\ Truthy(Field(parsed.obj, KeyDiagnosis)) /\ isComplete,
     content  |-> OrElse(Field(parsed.obj, KeyMessage),
                         TextIdentified \o Field(parsed.obj, KeyDiagnosis) \o <<".">>)]

\* processJson once the fragment is cleaned and handed to JSON.parse.
ProcessParsed(cleaned, parsed, thinking, isComplete, isSearchTriggered) ==
    [trigger  |-> EarlyTrade(isSearchTriggered, cleaned),
     threw    |-> ParseEscapes(parsed),
     accepted |-> parsed.ok /\ Truthy(Field(parsed.obj, KeyDiagnosis)),
     diag     |-> DiagnosisOf(thinking, parsed.obj),
     commit   |-> parsed.ok /\ Truthy(Field(parsed.obj, KeyDiagnosis)) /\ isComplete,
     content  |-> OrElse(Field(parsed.obj, KeyMessage),
                         TextIdentified \o Field(parsed.obj, KeyDiagnosis) \o <<".">>)]

NoResult ==
    [trigger |-> None, threw |-> FALSE, accepted |-> FALSE, diag |-> EmptyDiagnosis,
     commit |-> FALSE, content |-> <<>>]

\* A processJson that skips the parse once the search has been triggered.
ProcessCleanedOnce(cleaned, thinking, isComplete, isSearchTriggered) ==
    IF isSearchTriggered THEN NoResult
    ELSE ProcessParsed(cleaned, JsonParse(ToParse(cleaned, isComplete)), thinking,
                       isComplete, isSearchTriggered)

ProcessCleaned(cleaned, thinking, isComplete, isSearchTriggered) ==
    ProcessParsed(cleaned, JsonParse(ToParse(cleaned, isComplete)), thinking,
                  isComplete, isSearchTriggered)

\* processJson(jsonText, thinking, isComplete).
processJson(jsonText, thinking, isComplete, isSearchTriggered) ==
    ProcessCleaned(Cleaned(jsonText), thinking, isComplete, isSearchTriggered)

\* setDiagnosis of the reasoning step of startInitialDiagnosis.
ThinkingUpdateInitial(prev, thinking) ==
    Some([thinking        |-> thinking,
          diagnosis       |-> DiagField(prev, "diagnosis"),
          trade           |-> DiagField(prev, "trade"),
          action_required |-> DiagField(prev, "action_required"),
          estimated_cost  |-> DiagField(prev, "estimated_cost"),
          message         |-> <<>>])

\* currentThinking after the reasoning step.
ThinkingOf(thoughtMatch, currentThinking) ==
    IF thoughtMatch.found THEN CleanThinking(thoughtMatch.body) ELSE currentThinking

\* The processJson call of one pass, if it makes one.
RunProcessJson(call, thinking, isSearchTriggered) ==
    IF call.run
    THEN processJson(call.jsonText, thinking, call.isComplete, isSearchTriggered)
    ELSE NoResult

\* The turn record after a pass that read the chunk and may have triggered
\* the search.
AfterRead(t, j, text, thinking, trig) ==
    [t EXCEPT !.wire = SubSeq(t.wire, j + 1, Len(t.wire)),
              !.fullText = text,
              !.currentThinking = thinking,
              !.isSearchTriggered = @ \/ (trig /\ t.kind = "initial"),
              !.nGeo = @ + (IF trig THEN 1 ELSE 0)]

\* A pass that issues the upsert of its commit and reads on.
PassPcUnawaited(commit, done) == IF done THEN "done" ELSE "read"

\* Where the handler stands after a pass: at the awaited upsert of its
\* commit, at the next read, or after its loop.
PassPc(commit, done) == IF commit THEN "upsert" ELSE IF done THEN "done" ELSE "read"

\* How a write to the store ends: the row is written, the client returns an
\* error, or the promise of the client rejects.
WriteOutcomes == {"ok", "error", "rejected"}

\* The effects of one pass: the search is launched on a trigger; a commit
\* issues the upsert, which ends with w, and awaits it; the last pass without
\* commit ends the turn.  u is the state the pass has set so far.
ApplyPass(n, t1, u, done, trigger, commit, diag, content, hasChanged, w) ==
    /\ geoRequests' = IF trigger # None
                      THEN GetCurrentLocation(geoRequests, trigger[1], t1.clMemo)
                      ELSE geoRequests
    /\ IF commit
       THEN /\ conversation' = IF w = "ok"
                              THEN Upsert(conversation, SaveConversationRow(t1.cl,
                                       [NoOverrides EXCEPT !.diag = Some(diag)]))
                              ELSE conversation
            /\ turns' = [turns EXCEPT ![n] =
                   [t1 EXCEPT !.pc = PassPc(TRUE, done), !.atEnd = done, !.nUpsert = @ + 1,
                              !.upsert = w,
                              !.pending = Some([content |-> content,
                                                hasChanged |-> hasChanged])]]
            /\ Render(u)
       ELSE /\ UNCHANGED conversation
            /\ turns' = [turns EXCEPT ![n] = [t1 EXCEPT !.pc = PassPc(FALSE, done)]]
            /\ Render(IF done THEN Finally(u, t1.kind) ELSE u)

\* An exception leaves the snapshot step of a pass: the catch and finally
\* blocks of the handler run.  u is the state the pass has set so far.
PassThrows(n, t1, u, trigger) ==
    /\ geoRequests' = IF trigger # None
                      THEN GetCurrentLocation(geoRequests, trigger[1], t1.clMemo)
                      ELSE geoRequests
    /\ UNCHANGED conversation
    /\ turns' = [turns EXCEPT ![n] =
           [t1 EXCEPT !.pc = "failed",
                      !.nToast = @ + (IF CatchToasts(t1.kind) THEN 1 ELSE 0)]]
    /\ Render(Finally(u, t1.kind))

\* One read of the loop of startInitialDiagnosis: j pieces arrive as one
\* chunk, or (j = 0) the stream is done; runs up to the awaited upsert,
\* which ends with w.
ReadInitial(n, j, w) ==
    /\ IsTurn(n, {"initial"}, "read")
    /\ j \in 0..Len(turns[n].wire)
    /\ (j = 0) <=> (turns[n].wire = <<>>)
    /\ \E t \in {turns[n]}, done \in {j = 0} :
       \E text \in {t.fullText \o Flatten(SubSeq(t.wire, 1, j))} :
       \E tm \in {IF done THEN NoMatch ELSE ThoughtMatchInitial(text)} :
       \E thinking \in {ThinkingOf(tm, t.currentThinking)} :
       \E r \in {RunProcessJson(IF done THEN FinalCall(text, t.cl) ELSE SnapshotCall(text),
                                 thinking, t.isSearchTriggered)} :
       \E u \in {[ui EXCEPT !.diagnosis =
                        IF r.accepted THEN Some(r.diag)
                        ELSE IF tm.found THEN ThinkingUpdateInitial(@, thinking)
                        ELSE @]} :
          IF r.threw
          THEN PassThrows(n, AfterRead(t, j, text, thinking, r.trigger # None), u, r.trigger)
          ELSE ApplyPass(n, AfterRead(t, j, text, thinking, r.trigger # None), u,
                         done, r.trigger, r.commit, r.diag, r.content, FALSE, w)
    /\ UNCHANGED <<diagnosisStartedRef, queuedStarted, loadPc, dbMessages,
                   imageStore, sideToasts, earlyReturn, fileReads>>

\* A page that drops its record when the upsert of the commit fails.
AfterUpsertRollsBack(u, w) == IF w = "ok" THEN u ELSE [u EXCEPT !.diagnosis = None]

\* The state of the page after the awaited upsert has ended with w: an error
\* is logged, a rejection is caught by the catch around the parse.
AfterUpsert(u, w) == u

\* The awaited upsert of a commit settles: unless it rejected, saveMessage
\* inserts the assistant message (stored) or logs the error of the insert;
\* the loop goes on (or, after the final pass, ends).
UpsertDone(n, stored) ==
    /\ IsTurn(n, {"initial", "send", "regenerate"}, "upsert")
    /\ LET t == turns[n]
           called == t.upsert # "rejected"
       IN  /\ dbMessages' = IF called /\ stored
                            THEN Append(dbMessages, MessageRow("assistant",
                                     t.pending[1].content, t.pending[1].hasChanged))
                            ELSE dbMessages
           /\ turns' = [turns EXCEPT ![n] =
                  [t EXCEPT !.pc = IF t.atEnd THEN "done" ELSE "read",
                            !.pending = None,
                            !.nInsert = @ + (IF called THEN 1 ELSE 0)]]
           /\ Render(AfterUpsert(IF t.atEnd THEN Finally(ui, t.kind) ELSE ui, t.upsert))
    /\ UNCHANGED <<diagnosisStartedRef, queuedStarted, loadPc, conversation,
                   imageStore, geoRequests, sideToasts, earlyReturn, fileReads>>

\* ---- handleSend and handleRegenerate ------------------------------------

\* ChatFooter: isDisabled, and the page renders the footer only with an image.
FooterEnabled(u) ==
    /\ u.mounted
    /\ u.imageSrc # None
    /\ ~((u.diagnosis = None /\ u.isDiagnosing) \/ u.isResponding)

\* The guard of handleSend on the busy flag.
SendGuard(u) == u.isResponding

\* handleSend up to the fetch; text is what the user typed.
handleSend(text) ==
    /\ FooterEnabled(ui)
    /\ text \in UserTexts
    /\ Truthy(Trim(text))
    /\ ~SendGuard(ui)
    /\ Len(turns) < MaxTurns
    /\ LET userMsg    == Trim(text)
           newMessage == [role |-> "user", content |-> userMsg, feedback |-> "none",
                          hasUpdatedDiagnosis |-> FALSE]
       IN  /\ turns' = Append(turns, NewTurn("send", userMsg, 0))
           /\ dbMessages' = Append(dbMessages, MessageRow("user", userMsg, FALSE))
           /\ Render([ui EXCEPT !.messages = Append(@, newMessage),
                                !.attachments = <<>>,
                                !.isResponding = TRUE,
                                !.diagnosis = IF @ = None THEN @
                                              ELSE Some([@[1] EXCEPT !.thinking = <<>>])])
    /\ UNCHANGED <<diagnosisStartedRef, queuedStarted, loadPc, conversation,
                   imageStore, geoRequests, sideToasts, earlyReturn, fileReads>>

\* ChatMessage shows the regenerate button under every assistant message
\* with content, whatever the busy flags are.
RegenerateShown(u, i) ==
    /\ u.mounted
    /\ u.imageSrc # None
    /\ i \in 1..Len(u.messages)
    /\ u.messages[i].role = "assistant"
    /\ u.messages[i].content # <<>>

\* [...messageHistory].reverse().find(m => m.role === 'user')
LastUserMsg(history) ==
    LET c == {k \in 1..Len(history) : history[k].role = "user"}
    IN  IF c = {} THEN None ELSE Some(history[MaxOf(c)])

\* handleRegenerate(index) up to the fetch; i is index + 1.
handleRegenerate(i) ==
    /\ RegenerateShown(ui, i)
    /\ Len(turns) < MaxTurns
    /\ LET messageHistory == SubSeq(ui.messages, 1, i - 1)
           lastUserMsg    == LastUserMsg(messageHistory)
       IN  /\ lastUserMsg # None
           /\ turns' = Append(turns, NewTurn("regenerate", lastUserMsg[1].content, i))
           /\ Render([ui EXCEPT !.messages = SubSeq(@, 1, i - 1), !.isResponding = TRUE])
    /\ UNCHANGED <<diagnosisStartedRef, queuedStarted, loadPc, conversation, dbMessages,
                   imageStore, geoRequests, sideToasts, earlyReturn, fileReads>>

TextDiagnosisHeader == <<"D","I","A","G","N","O","S","I","S",":"," ">>

TextBlankLine == <<"\n","\n">>

TextCostHeader == <<"\n","\n","E","S","T","I","M","A","T","E","D"," ","C","O","S","T",":"," ">>

\* ${value} of a template literal; a member the record lacks (kept as the
\* empty text in the model) prints as 'undefined'.
Interpolate(s) == IF s = <<>> THEN TextUndefined ELSE s

\* initialMsgContent of handleSend and handleRegenerate.
InitialMsgContent(d) ==
    IF d = None THEN <<>>
    ELSE TextDiagnosisHeader \o Interpolate(d[1].diagnosis) \o TextBlankLine
         \o Interpolate(d[1].action_required) \o TextCostHeader
         \o Interpolate(d[1].estimated_cost)

\* .map(m => ({ role, content, attachments })) of the history.
HistoryEntries(msgs) ==
    [k \in 1..Len(msgs) |-> [role |-> msgs[k].role, content |-> msgs[k].content]]

\* The history a follow-up or regenerate turn posts to /api/diagnose.
HistorySent(t) ==
    (IF Truthy(InitialMsgContent(t.cl.diagnosis))
     THEN <<[role |-> "assistant", content |-> InitialMsgContent(t.cl.diagnosis)]>>
     ELSE <<>>)
    \o (IF t.kind = "regenerate"
        THEN HistoryEntries(SubSeq(t.messages, 1, t.index - 1))
        ELSE HistoryEntries(t.messages) \o <<[role |-> "user", content |-> t.userMsg]>>)

\* A comparison of the texts as they are.
CleanCompareExact(s) == s

\* clean(s) of the hasChanged comparison: (s || '').trim().toLowerCase()
CleanCompare(s) == [k \in 1..Len(Trim(s)) |-> Lower(Trim(s)[k])]

\* userMsg.toLowerCase().match(/provider|contact|who/)
UserAskedForProviders(userMsg) ==
    \/ Includes(userMsg, WordProvider)
    \/ Includes(userMsg, WordContact)
    \/ Includes(userMsg, WordWho)

\* The 'auto-trigger provider search' condition of a follow-up snapshot.
AutoTrigger(obj, cl, userMsg) ==
    /\ Truthy(Field(obj, KeyTrade))
    /\ \/ Field(obj, KeyTrade) # DiagField(cl.diagnosis, "trade")
       \/ Len(cl.providers) = 0
       \/ UserAskedForProviders(userMsg)

\* What a follow-up snapshot does with the object JSON.parse returned.
FollowUpParsed(found, parsed, isComplete, thinking, cl, userMsg) ==
    [accepted   |-> found /\ parsed.ok /\ Truthy(Field(parsed.obj, KeyDiagnosis)),
     threw      |-> found /\ ParseEscapes(parsed),
     content    |-> OrElse(Field(parsed.obj, KeyMessage),
                           Field(parsed.obj, KeyDiagnosis) \o <<"\n", "\n">> \o
                           (IF HasField(parsed.obj, KeyAction)
                            THEN Field(parsed.obj, KeyAction) ELSE TextUndefined)),
     hasChanged |-> \/ CleanCompare(DiagField(cl.diagnosis, "diagnosis"))
                         # CleanCompare(Field(parsed.obj, KeyDiagnosis))
                    \/ CleanCompare(DiagField(cl.diagnosis, "trade"))
                         # CleanCompare(Field(parsed.obj, KeyTrade)),
     diag       |-> DiagnosisOf(thinking, parsed.obj),
     trigger    |-> IF found /\ parsed.ok /\ Truthy(Field(parsed.obj, KeyDiagnosis))
                       /\ AutoTrigger(parsed.obj, cl, userMsg)
                    THEN Some(Field(parsed.obj, KeyTrade)) ELSE None,
     commit     |-> found /\ parsed.ok /\ Truthy(Field(parsed.obj, KeyDiagnosis))
                    /\ isComplete]

\* The fragment of a follow-up snapshot: cleaned, repaired, parsed.
FollowUpFragment(jsonMatch, isComplete, thinking, cl, userMsg) ==
    FollowUpParsed(jsonMatch.found,
                   JsonParse(ToParse(Cleaned(jsonMatch.body), isComplete)),
                   isComplete, thinking, cl, userMsg)

\* Is the JSON of the buffer closed, as a turn of this kind tests it?
FollowUpComplete(kind, text) ==
    \/ Includes(text, TagJsonClose)
    \/ (kind = "regenerate" /\ Includes(text, TagDataClose))

\* The snapshot step of handleSend (kind "send") and handleRegenerate.
FollowUpSnapshot(kind, text, thinking, cl, userMsg) ==
    FollowUpFragment(IF kind = "send" THEN JsonTagMatch(text)
                     ELSE JsonTagMatchRegenerate(text),
                     FollowUpComplete(kind, text), thinking, cl, userMsg)

NoSnapshot ==
    [accepted |-> FALSE, threw |-> FALSE, content |-> <<>>, hasChanged |-> FALSE, diag |-> EmptyDiagnosis,
     trigger |-> None, commit |-> FALSE]

\* setDiagnosis of the reasoning step of a follow-up or regenerate turn.
ThinkingUpdateFollowUp(prev, thinking) ==
    IF prev # None THEN Some([prev[1] EXCEPT !.thinking = thinking])
    ELSE Some([EmptyDiagnosis EXCEPT !.thinking = thinking])

\* next[next.length - 1] = { ...next[next.length - 1], content, hasUpdatedDiagnosis }
WriteLast(msgs, content, hasChanged) ==
    IF Len(msgs) = 0 THEN msgs
    ELSE [msgs EXCEPT ![Len(msgs)] = [@ EXCEPT !.content = content,
                                               !.hasUpdatedDiagnosis = hasChanged]]

\* thoughtMatch && thoughtMatch[1] of a follow-up or regenerate turn.
ThoughtMatchFollowUp(kind, text) ==
    IF kind = "send" THEN ThoughtMatchSend(text) ELSE ThoughtMatchRegenerate(text)

\* One read of the loop of handleSend or handleRegenerate.
ReadFollowUp(n, j, w) ==
    /\ IsTurn(n, {"send", "regenerate"}, "read")
    /\ j \in 0..Len(turns[n].wire)
    /\ (j = 0) <=> (turns[n].wire = <<>>)
    /\ \E t \in {turns[n]}, done \in {j = 0} :
       \E text \in {t.fullText \o Flatten(SubSeq(t.wire, 1, j))} :
       \E tm \in {IF done THEN NoMatch ELSE ThoughtMatchFollowUp(t.kind, text)} :
       \E thought \in {tm.found /\ Truthy(tm.body)} :
       \E thinking \in {IF thought THEN CleanThinking(tm.body) ELSE t.currentThinking} :
       \E r \in {IF done THEN NoSnapshot
                  ELSE FollowUpSnapshot(t.kind, text, thinking, t.cl, t.userMsg)} :
       \E u \in {IF r.accepted
                 THEN [ui EXCEPT !.diagnosis = Some(r.diag),
                                 !.messages = WriteLast(@, r.content, r.hasChanged)]
                 ELSE IF thought
                 THEN [ui EXCEPT !.diagnosis = ThinkingUpdateFollowUp(@, thinking)]
                 ELSE ui} :
          IF r.threw
          THEN PassThrows(n, AfterRead(t, j, text, thinking, r.trigger # None), u, r.trigger)
          ELSE ApplyPass(n, AfterRead(t, j, text, thinking, r.trigger # None), u,
                         done, r.trigger, r.commit, r.diag, r.content, r.hasChanged, w)
    /\ UNCHANGED <<diagnosisStartedRef, queuedStarted, loadPc, dbMessages,
                   imageStore, sideToasts, earlyReturn, fileReads>>

\* ---- The location and provider workflow ---------------------------------

RemoveAt(s, k) == SubSeq(s, 1, k - 1) \o SubSeq(s, k + 1, Len(s))

\* The error callback of getCurrentPosition.
GeoDenied(k) ==
    /\ k \in 1..Len(geoRequests)
    /\ geoRequests[k].pc = "asked"
    /\ geoRequests' = RemoveAt(geoRequests, k)
    /\ sideToasts' = sideToasts + 1
    /\ UNCHANGED <<ui, memo, diagnosisStartedRef, queuedStarted, loadPc, turns,
                   conversation, dbMessages, imageStore, earlyReturn, fileReads>>

\* The success callback of getCurrentPosition up to its await: the geocode
\* request and fetchProviders are started.
GeoGranted(k) ==
    /\ k \in 1..Len(geoRequests)
    /\ geoRequests[k].pc = "asked"
    /\ geoRequests' = [geoRequests EXCEPT ![k].pc = "providers"]
    /\ Render([ui EXCEPT !.isLoadingProviders = TRUE])
    /\ UNCHANGED <<diagnosisStartedRef, queuedStarted, loadPc, turns,
                   conversation, dbMessages, imageStore, sideToasts, earlyReturn, fileReads>>

\* A fetchProviders that empties the list when the search fails.
ProvidersResultClears(k, ok) ==
    /\ k \in 1..Len(geoRequests)
    /\ geoRequests[k].pc = "providers"
    /\ geoRequests' = [geoRequests EXCEPT ![k].pc = "location", ![k].error = ~ok]
    /\ conversation' = IF ok
                       THEN Upsert(conversation, SaveConversationRow(geoRequests[k].cl,
                                [NoOverrides EXCEPT !.provs = Some(Providers1)]))
                       ELSE conversation
    /\ Render([ui EXCEPT !.providers = IF ok THEN Providers1 ELSE <<>>,
                         !.isLoadingProviders = FALSE])
    /\ UNCHANGED <<diagnosisStartedRef, queuedStarted, loadPc, turns,
                   dbMessages, imageStore, sideToasts, earlyReturn, fileReads>>

\* fetchProviders after its fetch: ok with a provider list, or an error
\* status or a thrown request, which console.error logs (error).
ProvidersResult(k, ok) ==
    /\ k \in 1..Len(geoRequests)
    /\ geoRequests[k].pc = "providers"
    /\ geoRequests' = [geoRequests EXCEPT ![k].pc = "location", ![k].error = ~ok]
    /\ conversation' = IF ok
                       THEN Upsert(conversation, SaveConversationRow(geoRequests[k].cl,
                                [NoOverrides EXCEPT !.provs = Some(Providers1)]))
                       ELSE conversation
    /\ Render([ui EXCEPT !.providers = IF ok THEN Providers1 ELSE @,
                         !.isLoadingProviders = FALSE])
    /\ UNCHANGED <<diagnosisStartedRef, queuedStarted, loadPc, turns,
                   dbMessages, imageStore, sideToasts, earlyReturn, fileReads>>

\* The address of the position in the answer of /api/geocode.
TextAddress == <<"1"," ","M","a","i","n"," ","R","d">>

\* How the geocode request ends: an answer with the address, an answer
\* without one (the error body of the route), or a rejected request or body.
GeoOutcomes == {"address", "noaddress", "rejected"}

\* geoData.address of the geocode promise: .catch turns a rejection into
\* the placeholder; undefined is read as the empty string.
GeoData(o) ==
    CASE o = "address" -> TextAddress
      [] o = "noaddress" -> <<>>
      [] OTHER -> TextCurrentLocation

\* A location that takes the address of the answer as it comes.
LocationOfRaw(address) == [lat |-> 1, lng |-> 2, address |-> address]

\* loc of the success callback.
LocationOf(address) ==
    [lat |-> 1, lng |-> 2, address |-> OrElse(address, TextCurrentLocation)]

\* Promise.all of the success callback resolves, the geocode having ended
\* with o: the location is set and saved.
LocationDone(k, o) ==
    /\ k \in 1..Len(geoRequests)
    /\ geoRequests[k].pc = "location"
    /\ geoRequests' = RemoveAt(geoRequests, k)
    /\ conversation' = Upsert(conversation, SaveConversationRow(geoRequests[k].cl,
                            [NoOverrides EXCEPT !.loc = Some(LocationOf(GeoData(o)))]))
    /\ Render([ui EXCEPT !.userLocation = Some(LocationOf(GeoData(o)))])
    /\ UNCHANGED <<diagnosisStartedRef, queuedStarted, loadPc, turns,
                   dbMessages, imageStore, sideToasts, earlyReturn, fileReads>>

\* The condition of the effect 'Re-fetches providers if they are missing';
\* it is evaluated on every render that changed one of its dependencies,
\* and each of its conjuncts reads a dependency.
RefetchDue(u) ==
    /\ u.mounted
    /\ u.isLoaded
    /\ u.userLocation # None
    /\ Truthy(DiagField(u.diagnosis, "trade"))
    /\ u.providers = <<>>
    /\ ~u.isLoadingProviders

\* The effect calls fetchProviders, which runs up to its fetch.
AutoRefetch ==
    /\ RefetchDue(ui)
    /\ Len(geoRequests) <= MaxGeo
    /\ geoRequests' = Append(geoRequests,
                             [pc |-> "refetch", trade |-> DiagField(ui.diagnosis, "trade"),
                              cl |-> memo, error |-> FALSE])
    /\ Render([ui EXCEPT !.isLoadingProviders = TRUE])
    /\ UNCHANGED <<diagnosisStartedRef, queuedStarted, loadPc, turns,
                   conversation, dbMessages, imageStore, sideToasts, earlyReturn, fileReads>>

\* How a provider search ends: with providers, with an empty list, or with
\* an error status or a thrown request.
SearchOutcomes == {"list", "empty", "error"}

\* data.providers of the answer.
ProvidersOf(outcome) == IF outcome = "list" THEN Providers1 ELSE <<>>

\* fetchProviders of the effect after its fetch; an empty array is truthy,
\* so the empty list is set and saved like any other.
RefetchResult(k, outcome) ==
    /\ k \in 1..Len(geoRequests)
    /\ geoRequests[k].pc = "refetch"
    /\ geoRequests' = RemoveAt(geoRequests, k)
    /\ conversation' = IF outcome # "error"
                       THEN Upsert(conversation, SaveConversationRow(geoRequests[k].cl,
                                [NoOverrides EXCEPT !.provs = Some(ProvidersOf(outcome))]))
                       ELSE conversation
    /\ Render([ui EXCEPT !.providers = IF outcome # "error" THEN ProvidersOf(outcome) ELSE @,
                         !.isLoadingProviders = FALSE])
    /\ UNCHANGED <<diagnosisStartedRef, queuedStarted, loadPc, turns,
                   dbMessages, imageStore, sideToasts, earlyReturn, fileReads>>

\* ---- Attachments of the footer -------------------------------------------

\* The most attachments a message takes.
AttachmentLimit == 5

\* What a file read adds: the compressed image, or the data URL itself when
\* compressImage rejects.
ReadOutcomes == {"compressed", "url"}

\* An updater that appends without cutting the list.
AddAttachmentUncut(prev, item) == Append(prev, item)

\* The updater of both setAttachments calls: [...prev, item].slice(0, 5).
AddAttachment(prev, item) ==
    SubSeq(Append(prev, item), 1, MinOf({AttachmentLimit, Len(prev) + 1}))

\* handleFilesChosen(files) with n files: a read is started for each of the
\* first slots files.
handleFilesChosen(n) ==
    /\ ui.mounted
    /\ n \in 1..MaxFiles
    /\ AttachmentLimit - Len(ui.attachments) > 0
    /\ fileReads + MinOf({n, AttachmentLimit - Len(ui.attachments)}) <= MaxReads
    /\ fileReads' = fileReads + MinOf({n, AttachmentLimit - Len(ui.attachments)})
    /\ UNCHANGED <<ui, memo, diagnosisStartedRef, queuedStarted, loadPc, turns,
                   conversation, dbMessages, imageStore, geoRequests, sideToasts, earlyReturn>>

\* reader.onload of one file up to the end of its callback; a read without
\* a result adds nothing.
FileRead(outcome) ==
    /\ fileReads > 0
    /\ fileReads' = fileReads - 1
    /\ Render(IF outcome = "nothing" THEN ui
              ELSE [ui EXCEPT !.attachments = AddAttachment(@, outcome)])
    /\ UNCHANGED <<diagnosisStartedRef, queuedStarted, loadPc, turns,
                   conversation, dbMessages, imageStore, geoRequests, sideToasts, earlyReturn>>

\* removeAttachment(index); i is index + 1.
removeAttachment(i) ==
    /\ ui.mounted
    /\ i \in 1..Len(ui.attachments)
    /\ Render([ui EXCEPT !.attachments = RemoveAt(@, i)])
    /\ UNCHANGED <<diagnosisStartedRef, queuedStarted, loadPc, turns,
                   conversation, dbMessages, imageStore, geoRequests, sideToasts,
                   earlyReturn, fileReads>>

\* The two thumbs of a message.
FeedbackTypes == {"up", "down"}

\* A feedback that sets the thumb without taking it back.
SetFeedbackSticks(prev, index, type) ==
    [i \in 1..Len(prev) |-> IF i = index THEN [prev[i] EXCEPT !.feedback = type] ELSE prev[i]]

\* The updater of handleMessageFeedback; null is written "none".
SetFeedback(prev, index, type) ==
    [i \in 1..Len(prev) |->
        IF i = index
        THEN [prev[i] EXCEPT !.feedback = IF @ = type THEN "none" ELSE type]
        ELSE prev[i]]

\* handleMessageFeedback(index, type), on a thumb of any message shown.
handleMessageFeedback(index, type) ==
    /\ ui.mounted
    /\ index \in 1..Len(ui.messages)
    /\ Render([ui EXCEPT !.messages = SetFeedback(@, index, type)])
    /\ UNCHANGED <<diagnosisStartedRef, queuedStarted, loadPc, turns, conversation,
                   dbMessages, imageStore, geoRequests, sideToasts, earlyReturn, fileReads>>

\* ------------------------------------------------------------------------
\* Specification
\* ------------------------------------------------------------------------

\* The page, its turns and the service: the browser leaves every location
\* request unanswered (the permission prompt stays open), and every write
\* of a commit reaches the store.
Next ==
    \/ Mount
    \/ \E ok \in BOOLEAN : LoadDone(ok)
    \/ handleFallbackUpload
    \/ UploadDone(TRUE)
    \/ RenderQueued
    \/ Navigate
    \/ startInitialDiagnosis
    \/ \E text \in UserTexts : handleSend(text)
    \/ \E i \in 1..Len(ui.messages) : handleRegenerate(i)
    \/ \E n \in 1..Len(turns), outcome \in FetchFailures : FetchFail(n, outcome)
    \/ \E n \in 1..Len(turns), stream \in Streams : FetchOk(n, stream)
    \/ \E n \in 1..Len(turns) : \E j \in 0..Len(turns[n].wire) : ReadInitial(n, j, "ok")
    \/ \E n \in 1..Len(turns) : \E j \in 0..Len(turns[n].wire) : ReadFollowUp(n, j, "ok")
    \/ \E n \in 1..Len(turns) : UpsertDone(n, TRUE)
    \/ \E n \in 1..Len(turns) : ReadError(n)

Spec == Init /\ [][Next]_vars

\* The same with a browser that answers, for sessions of MaxSideTurns turns.
NextSide ==
    \/ Next /\ Len(turns') <= MaxSideTurns
    \/ \E k \in 1..Len(geoRequests) : GeoDenied(k)
    \/ \E k \in 1..Len(geoRequests) : GeoGranted(k)
    \/ \E k \in 1..Len(geoRequests), ok \in BOOLEAN : ProvidersResult(k, ok)
    \/ \E k \in 1..Len(geoRequests), o \in GeoOutcomes : LocationDone(k, o)
    \/ AutoRefetch
    \/ \E k \in 1..Len(geoRequests), outcome \in SearchOutcomes : RefetchResult(k, outcome)

SpecSide == Init /\ [][NextSide]_vars

\* ------------------------------------------------------------------------
\* Properties of the turns
\* ------------------------------------------------------------------------

FollowUpKinds == {"send", "regenerate"}

\* The turn has an open stream: it reads, or awaits the upsert of a commit.
Streaming(t) == t.pc \in {"read", "upsert"}

\* The turn is in flight: its request is out or its stream is open.
InFlight(t) == t.pc \in {"fetch", "read", "upsert"}

\* The whole body of the stream of a turn whose fetch was answered.
Body(t) == t.fullText \o Flatten(t.wire)

\* Does JSON.parse read the fragment as an object with a non-empty diagnosis?
IsRecord(fragment) ==
    /\ JsonParse(Cleaned(fragment)).ok
    /\ Truthy(Field(JsonParse(Cleaned(fragment)).obj, KeyDiagnosis))

\* The text holds a <json> region with its closing tag and a record in it.
TaggedRecord(text) ==
    /\ JsonTagMatch(text).found
    /\ Includes(text, TagJsonClose)
    /\ IsRecord(JsonTagMatch(text).body)

\* The text holds no <json> tag, and from its first '{' to its last '}' a
\* record.
BareRecord(text) ==
    /\ ~JsonTagMatch(text).found
    /\ AnyJsonMatch(text).found
    /\ IsRecord(AnyJsonMatch(text).body)

\* The trade can be sniffed in the JSON region of the text.
TradeSniffable(text) ==
    /\ SnapshotCall(text).run
    /\ EarlyTrade(FALSE, Cleaned(SnapshotCall(text).jsonText)) # None

\* C1: an initial-diagnosis turn whose stream brought a closed <json> record
\* into the buffer and then reached EOF has committed exactly once: one
\* conversation upsert and one assistant-message insert.
C1_InitialCommitsOnce ==
    \A n \in 1..Len(turns) :
        (turns[n].kind = "initial" /\ turns[n].pc = "done" /\ TaggedRecord(turns[n].fullText))
            => (turns[n].nUpsert = 1 /\ turns[n].nInsert = 1)

\* C2: a follow-up or regenerate turn commits at most once, whatever the
\* chunking: at most one conversation upsert and one assistant-message insert.
C2_FollowUpCommitsAtMostOnce ==
    \A n \in 1..Len(turns) :
        turns[n].kind \in FollowUpKinds => (turns[n].nUpsert <= 1 /\ turns[n].nInsert <= 1)

\* C3: in an initial-diagnosis turn whose stream holds no <json> tag but a
\* bare record, no snapshot before EOF commits, and the final pass at EOF
\* commits exactly once.
C3_BareRecordCommitsAtEofOnly ==
    \A n \in 1..Len(turns) :
        (turns[n].kind = "initial" /\ turns[n].pc \in {"read", "upsert", "done"}
         /\ BareRecord(Body(turns[n])))
            => /\ turns[n].pc = "read" => (turns[n].nUpsert = 0 /\ turns[n].nInsert = 0)
               /\ turns[n].pc = "upsert" =>
                      (turns[n].atEnd /\ turns[n].nUpsert = 1 /\ turns[n].nInsert = 0)
               /\ turns[n].pc = "done" => (turns[n].nUpsert = 1 /\ turns[n].nInsert = 1)

\* C3 happens: an initial-diagnosis turn over a bare record is done and has
\* committed once.
C3_Witness ==
    \E n \in 1..Len(turns) :
        /\ turns[n].kind = "initial" /\ turns[n].pc = "done"
        /\ BareRecord(turns[n].fullText)
        /\ turns[n].nUpsert = 1 /\ turns[n].nInsert = 1

\* C4: a follow-up or regenerate turn whose stream ended with a bare record
\* and no closing tag has committed the assistant message and the record by
\* the time it is done.
C4_FollowUpCommitsAtEof ==
    \A n \in 1..Len(turns) :
        (turns[n].kind \in FollowUpKinds /\ turns[n].pc = "done" /\ BareRecord(turns[n].fullText))
            => (turns[n].nUpsert >= 1 /\ turns[n].nInsert >= 1)

\* C5: an initial-diagnosis turn launches getCurrentLocation at most once,
\* and exactly once when it is done and the trade could be sniffed.
C5_InitialLaunchesSearchOnce ==
    \A n \in 1..Len(turns) :
        turns[n].kind = "initial"
            => /\ turns[n].nGeo <= 1
               /\ (turns[n].pc = "done" /\ TradeSniffable(turns[n].fullText)) => turns[n].nGeo = 1

\* C5 happens: three passes of one initial-diagnosis turn (two snapshots and
\* the final pass) each parsed the record with its trade and committed it,
\* and the search was launched once.
C5_Witness ==
    \E n \in 1..Len(turns) :
        /\ turns[n].kind = "initial" /\ turns[n].pc = "done"
        /\ TradeSniffable(turns[n].fullText)
        /\ turns[n].nUpsert = 3
        /\ turns[n].nGeo = 1

\* C6: a follow-up or regenerate turn launches getCurrentLocation at most
\* once.
C6_FollowUpLaunchesSearchAtMostOnce ==
    \A n \in 1..Len(turns) : turns[n].kind \in FollowUpKinds => turns[n].nGeo <= 1

\* C7: at most one initial-diagnosis turn is in flight, and a call of
\* startInitialDiagnosis that returned at the ref guard came after the call
\* that started the turn.
C7_OneInitialTurnInFlight ==
    /\ Cardinality({n \in 1..Len(turns) :
                        turns[n].kind = "initial" /\ InFlight(turns[n])}) <= 1
    /\ earlyReturn => \E n \in 1..Len(turns) : turns[n].kind = "initial"

\* C7 happens: the effect fired again before hasStartedDiagnosis was
\* rendered, the call returned at the guard, and the one turn is in flight.
C7_Witness ==
    /\ earlyReturn
    /\ ui.mounted
    /\ Cardinality({n \in 1..Len(turns) :
                        turns[n].kind = "initial" /\ InFlight(turns[n])}) = 1
    /\ Cardinality({n \in 1..Len(turns) : turns[n].kind = "initial"}) = 1

\* C8: no two turns of the conversation have an open stream at the same
\* time.
C8_OneTurnStreaming ==
    Cardinality({n \in 1..Len(turns) : Streaming(turns[n])}) <= 1

\* C9: a turn whose stream was open when the user left the page issues no
\* conversation upsert and no assistant-message insert from then on.
C9_StaleTurnCommitsNothing ==
    [][\A n \in 1..Len(turns) :
          turns[n].stale => /\ turns'[n].nUpsert = turns[n].nUpsert
                            /\ turns'[n].nInsert = turns[n].nInsert]_vars

\* C10: the step in which the fetch of a turn fails issues no conversation
\* upsert and no message insert, leaves the turn without any commit, and
\* leaves the busy flag of the turn false.
C10_FailedFetchCommitsNothing ==
    [][\A n \in 1..Len(turns) :
          (turns[n].pc = "fetch" /\ turns'[n].pc = "failed")
              => /\ conversation' = conversation
                 /\ dbMessages' = dbMessages
                 /\ turns'[n].nUpsert = 0 /\ turns'[n].nInsert = 0
                 /\ ~ui'[BusyFlag(turns[n].kind)]]_vars

\* C10 happens: a follow-up or regenerate turn failed at its fetch on the
\* mounted page, which had set isResponding, and nothing was committed.
C10_Witness ==
    \E n \in 1..Len(turns) :
        /\ turns[n].kind \in FollowUpKinds
        /\ turns[n].pc = "failed" /\ turns[n].wire = <<>> /\ turns[n].fullText = <<>>
        /\ turns[n].nUpsert = 0 /\ turns[n].nInsert = 0
        /\ ui.mounted /\ ~ui.isResponding

\* ------------------------------------------------------------------------
\* The load of the conversation against its timer
\* ------------------------------------------------------------------------

\* Sessions of MaxSideTurns turns in which the timer of loadConversation can
\* win the race against the store fetch.
NextLoad ==
    \/ Next /\ Len(turns') <= MaxSideTurns
    \/ LoadTimeout
    \/ \E ok \in BOOLEAN : FetchLate(ok)

\* The timer fires when it is due; the store need not ever answer.
SpecLoad == Init /\ [][NextLoad]_vars /\ WF_vars(LoadTimeout)

\* ------------------------------------------------------------------------
\* One turn over the example buffers
\* ------------------------------------------------------------------------

\* The buffer of the reasoning round trip.
TextReasoning ==
    <<"<","t","h","o","u","g","h","t",">","a","b","c","<","/","t","h","o","u","g","h","t",">","<","j","s","o","n",">","{","\"","d","i","a","g","n","o","s","i","s","\"",":","\"","D","\"","}","<","/","j","s","o","n",">">>

\* The same with the reasoning in a fenced block.
TextFenced ==
    <<Tick,Tick,Tick,"t","h","o","u","g","h","t","\n","a","b","c","\n",Tick,Tick,Tick,"<","j","s","o","n",">","{","\"","d","i","a","g","n","o","s","i","s","\"",":","\"","D","\"","}","<","/","j","s","o","n",">">>

\* Reasoning in which the model echoes tag syntax.
TextNested ==
    <<"<","t","h","o","u","g","h","t",">","a","<","t","h","o","u","g","h","t",">","b","<","<","t","h","o","u","g","h","t",">","t","h","o","u","g","h","t",">","c","<","/","t","h","o","u","g","h","t",">">>

\* A record without any tag.
TextUntagged ==
    <<"S","o","m","e"," ","t","e","x","t"," ","{","\"","d","i","a","g","n","o","s","i","s","\"",":","\"","C","r","a","c","k","\"","}"," ","t","r","a","i","l","i","n","g">>

\* A tagged record with the four members of a DiagnosisRecord.
TextRecord ==
    <<"<","j","s","o","n",">","{","\"","d","i","a","g","n","o","s","i","s","\"",":","\"","X","\"",",","\"","t","r","a","d","e","\"",":","\"","Y","\"",",","\"","a","c","t","i","o","n","_","r","e","q","u","i","r","e","d","\"",":","\"","Z","\"",",","\"","e","s","t","i","m","a","t","e","d","_","c","o","s","t","\"",":","\"","W","\"","}","<","/","j","s","o","n",">">>

\* A record that differs from the stored one in case and white space only.
TextLowerTrade ==
    <<"<","j","s","o","n",">","{","\"","d","i","a","g","n","o","s","i","s","\"",":","\""," ","L","E","A","K"," ","\"",",","\"","t","r","a","d","e","\"",":","\"","p","l","u","m","b","e","r","\"","}","<","/","j","s","o","n",">">>

\* A record with another trade.
TextOtherTrade ==
    <<"<","j","s","o","n",">","{","\"","d","i","a","g","n","o","s","i","s","\"",":","\"","L","e","a","k","\"",",","\"","t","r","a","d","e","\"",":","\"","E","l","e","c","t","r","i","c","i","a","n","\"","}","<","/","j","s","o","n",">">>

\* A closed record whose diagnosis is the empty string.
TextEmptyDiagnosis ==
    <<"<","j","s","o","n",">","{","\"","d","i","a","g","n","o","s","i","s","\"",":","\"","\"",",","\"","t","r","a","d","e","\"",":","\"","P","l","u","m","b","e","r","\"","}","<","/","j","s","o","n",">">>

\* A record with a closing brace inside its first value.
TextBraceInside ==
    <<"<","j","s","o","n",">","{","\"","d","i","a","g","n","o","s","i","s","\"",":","\"","a","}","\"",",","\"","t","r","a","d","e","\"",":","\"","T","\"","}","<","/","j","s","o","n",">">>

\* A record whose trade has a quotation mark in it.
TextQuotedTrade ==
    <<"<","j","s","o","n",">","{","\"","d","i","a","g","n","o","s","i","s","\"",":","\"","D","\"",",","\"","t","r","a","d","e","\"",":","\"","A","\\","\"","B","\"","}","<","/","j","s","o","n",">">>

\* A record followed by a stray closing brace.
TextLateBrace ==
    <<"<","j","s","o","n",">","{","\"","d","i","a","g","n","o","s","i","s","\"",":","\"","X","\"",",","\"","t","r","a","d","e","\"",":","\"","Y","\"","}"," ","}","x">>

\* A closing tag in the text before the tagged record.
TextStrayClose ==
    <<"<","/","j","s","o","n",">","<","j","s","o","n",">","{","\"","d","i","a","g","n","o","s","i","s","\"",":","\"","D","\"","}","<","/","j","s","o","n",">">>

\* The scenario of four chunks.
StreamChunks ==
    <<<<"<","t","h","o","u","g","h","t",">","C","h","e","c","k">>,
      <<"i","n","g"," ","p","i","p","e","<","/","t","h","o","u","g","h","t",">","<","j","s">>,
      <<"o","n",">","{","\"","d","i","a","g","n","o","s","i","s","\"",":","\"","L","e">>,
      <<"a","k","\"",",","\"","t","r","a","d","e","\"",":","\"","P","l","u","m","b","e","r","\"","}","<","/","j","s","o","n",">">>>>

\* The text as a stream of one-character pieces: a read can end at every
\* offset of it.
Chars(text) == [k \in 1..Len(text) |-> <<text[k]>>]

\* The bodies of the examples.
CaseStreams ==
    {Chars(TextReasoning), Chars(TextFenced), Chars(TextNested), Chars(TextUntagged),
     Chars(TextRecord), Chars(TextLowerTrade), Chars(TextOtherTrade), StreamChunks,
     StreamTagged, StreamNoDiagnosis, Chars(TextEmptyDiagnosis), Chars(TextBraceInside),
     Chars(TextQuotedTrade), Chars(TextLateBrace), Chars(TextStrayClose)}

\* A conversation of one turn whose response is one of the examples, without
\* failures and without navigation.
NextStream ==
    \/ Mount
    \/ \E ok \in BOOLEAN : LoadDone(ok)
    \/ RenderQueued
    \/ turns = <<>> /\ startInitialDiagnosis
    \/ turns = <<>> /\ \E text \in UserTexts : handleSend(text)
    \/ turns = <<>> /\ \E i \in 1..Len(ui.messages) : handleRegenerate(i)
    \/ \E n \in 1..Len(turns), stream \in CaseStreams : FetchOk(n, stream)
    \/ \E n \in 1..Len(turns) : \E j \in 0..Len(turns[n].wire) : ReadInitial(n, j, "ok")
    \/ \E n \in 1..Len(turns) : \E j \in 0..Len(turns[n].wire) : ReadFollowUp(n, j, "ok")
    \/ \E n \in 1..Len(turns) : UpsertDone(n, TRUE)

SpecStream == Init /\ [][NextStream]_vars

\* C11: a turn of any kind that failed (rejected fetch, non-success status,
\* null body, failed read) has raised exactly one toast.
C11_FailedTurnToastsOnce ==
    \A n \in 1..Len(turns) : turns[n].pc = "failed" => turns[n].nToast = 1

\* C12: the step in which the fetch of a regenerate turn fails leaves the
\* message list of the page as it was when handleRegenerate was called.
C12_FailedRegenerateKeepsMessages ==
    [][\A n \in 1..Len(turns) :
          (/\ turns[n].kind = "regenerate"
           /\ turns[n].pc = "fetch" /\ turns'[n].pc = "failed"
           /\ ui'.mounted)
              => ui'.messages = turns[n].messages]_vars

\* The message list a regenerate turn is to leave: the messages before its
\* index followed by one assistant message.
ReplacedList(t, msgs) ==
    /\ Len(msgs) = t.index
    /\ SubSeq(msgs, 1, t.index - 1) = SubSeq(t.messages, 1, t.index - 1)
    /\ msgs[t.index].role = "assistant"

\* C13: when a regenerate turn that committed ends, the message list of the
\* page is the messages before its index followed by one new assistant
\* message, and the history it posted is the list truncated before the index.
C13_RegenerateReplaces ==
    [][\A n \in 1..Len(turns) :
          (/\ turns[n].kind = "regenerate"
           /\ turns[n].pc # "done" /\ turns'[n].pc = "done"
           /\ turns'[n].nUpsert >= 1
           /\ ui'.mounted)
              => /\ ReplacedList(turns[n], ui'.messages)
                 /\ HistorySent(turns[n])
                        = HistoryEntries(SubSeq(turns[n].messages, 1, turns[n].index - 1))]_vars

\* The side workflow of the page has finished: no request is pending, the
\* provider list was fetched and the location resolved.
SideFinished ==
    /\ geoRequests = <<>>
    /\ ui.mounted
    /\ ui.providers = Providers1
    /\ ui.userLocation = Some(Location1)

\* C14: once the commit of the turn and the side workflow have both
\* finished, in whatever order, the stored conversation row holds the
\* committed record, the fetched provider list and the location.
C14_RowHoldsAllWrites ==
    (/\ SideFinished
     /\ Len(turns) >= 1
     /\ \A n \in 1..Len(turns) : turns[n].pc = "done" /\ turns[n].nUpsert >= 1)
        => /\ conversation # None
           /\ conversation[1].diagnosis_json # None
           /\ conversation[1].diagnosis_json[1].diagnosis = ui.diagnosis[1].diagnosis
           /\ conversation[1].providers_json = Providers1
           /\ conversation[1].loc = Some(Location1)

\* The turn has processed at least one snapshot of its buffer.
Snapshotted(t) == t.pc \in {"read", "upsert", "done"} /\ t.fullText # <<>>

ReasoningOpens == <<TagThoughtOpen, TagProcessOpen>>

ReasoningCloses == <<TagThoughtClose, TagProcessClose>>

\* Index of the first occurrence of one of the markers at or after from, and
\* 0 when there is none.
FirstOf(text, markers, from) ==
    LET c == {IndexFrom(text, markers[k], from) : k \in 1..Len(markers)} \ {0}
    IN  IF c = {} THEN 0 ELSE MinOf(c)

\* The text between the first of the opening markers and the first closing
\* marker after it, or the end of the text.
InnerText(text, opens, closes) ==
    LET o  == FirstOf(text, opens, 1)
        k  == CHOOSE k \in 1..Len(opens) : MatchAt(text, o, opens[k])
        st == o + Len(opens[k])
        c  == FirstOf(text, closes, st)
    IN  SubSeq(text, st, (IF c = 0 THEN Len(text) + 1 ELSE c) - 1)

\* The text holds no reasoning tag and no fence.
MarkerFree(s) ==
    /\ FirstOf(s, ReasoningOpens, 1) = 0
    /\ FirstOf(s, ReasoningCloses, 1) = 0
    /\ ~Includes(s, Fence)

TextAbc == <<"a","b","c">>

\* C15: the reasoning a snapshot of an initial or follow-up turn extracts is
\* the trimmed inner text of the reasoning tags, else of the fenced block,
\* else nothing; it never holds a reasoning tag or a fence; for the buffer
\* <thought>abc</thought><json>{"diagnosis":"D"}</json> it is "abc".
C15_ReasoningExtraction ==
    \A n \in 1..Len(turns) :
        (turns[n].kind \in {"initial", "send"} /\ Snapshotted(turns[n]))
            => /\ MarkerFree(turns[n].currentThinking)
               /\ (FirstOf(turns[n].fullText, ReasoningOpens, 1) # 0
                   /\ MarkerFree(InnerText(turns[n].fullText, ReasoningOpens, ReasoningCloses)))
                      => turns[n].currentThinking
                           = Trim(InnerText(turns[n].fullText, ReasoningOpens, ReasoningCloses))
               /\ (FirstOf(turns[n].fullText, ReasoningOpens, 1) = 0
                   /\ Includes(turns[n].fullText, FenceThought)
                   /\ MarkerFree(InnerText(turns[n].fullText, <<FenceThought>>, <<Fence>>)))
                      => turns[n].currentThinking
                           = Trim(InnerText(turns[n].fullText, <<FenceThought>>, <<Fence>>))
               /\ (FirstOf(turns[n].fullText, ReasoningOpens, 1) = 0
                   /\ ~Includes(turns[n].fullText, FenceThought))
                      => turns[n].currentThinking = <<>>
               /\ turns[n].fullText = TextReasoning => turns[n].currentThinking = TextAbc

\* The JSON region of a buffer: from the <json> tag to the first closing tag
\* or the end; without any <json> tag, from the first '{' to the last '}'.
ExpectedRegion(b) ==
    IF FirstOf(b, <<TagJsonOpen>>, 1) # 0
    THEN Some(InnerText(b, <<TagJsonOpen>>, <<TagJsonClose>>))
    ELSE LET opens  == {i \in 1..Len(b) : b[i] = "{"}
             closes == {i \in 1..Len(b) : b[i] = "}"}
         IN  IF opens = {} \/ closes = {} \/ MaxOf(closes) < MinOf(opens) THEN None
             ELSE Some(SubSeq(b, MinOf(opens), MaxOf(closes)))

TextCrack == <<"C","r","a","c","k">>

TextCrackObject ==
    <<"{","\"","d","i","a","g","n","o","s","i","s","\"",":","\"","C","r","a","c","k","\"","}">>

\* C16: the fragment an initial turn hands to processJson, on a snapshot and
\* on the final pass, is the JSON region of the buffer: the tagged region
\* when a <json> tag is present, the bare braces only when there is none; an
\* untagged buffer with the object {"diagnosis":"Crack"} yields the record
\* with diagnosis "Crack".
C16_JsonRegionSelection ==
    \A n \in 1..Len(turns) :
        (turns[n].kind = "initial" /\ Snapshotted(turns[n]))
            => /\ SnapshotCall(turns[n].fullText).run = (ExpectedRegion(turns[n].fullText) # None)
               /\ SnapshotCall(turns[n].fullText).run
                    => SnapshotCall(turns[n].fullText).jsonText
                         = ExpectedRegion(turns[n].fullText)[1]
               /\ ~Truthy(DiagField(turns[n].cl.diagnosis, "diagnosis"))
                    => /\ FinalCall(turns[n].fullText, turns[n].cl).run
                            = (ExpectedRegion(turns[n].fullText) # None)
                       /\ FinalCall(turns[n].fullText, turns[n].cl).run
                            => FinalCall(turns[n].fullText, turns[n].cl).jsonText
                                 = ExpectedRegion(turns[n].fullText)[1]
               /\ (/\ ExpectedRegion(turns[n].fullText) = Some(TextCrackObject)
                   /\ FirstOf(turns[n].fullText, <<TagJsonOpen>>, 1) = 0)
                    => DiagField(ui.diagnosis, "diagnosis") = TextCrack

\* C16 happens: an initial turn has read the whole untagged example, and the
\* record of the bare braces is shown.
C16_Witness ==
    \E n \in 1..Len(turns) :
        /\ turns[n].kind = "initial" /\ turns[n].pc = "read"
        /\ turns[n].fullText = TextUntagged
        /\ DiagField(ui.diagnosis, "diagnosis") = TextCrack

IsPrefix(b, s) == Len(b) <= Len(s) /\ SubSeq(s, 1, Len(b)) = b

RecordFields == {"diagnosis", "trade", "action_required", "estimated_cost"}

\* The object JSON.parse returns for the JSON region of the buffer, cleaned
\* and repaired as for a snapshot.
RegionParse(b) ==
    JsonParse(ToParse(Cleaned(ExpectedRegion(b)[1]), Includes(b, TagJsonClose)))

\* C17: a turn that has read the tagged record up to any offset has not
\* ended with an error: it has raised no toast and its read loop goes on (or
\* has ended at the end of the stream), and the record of the page is either
\* as it was when the turn began or the object that JSON.parse accepted.
C17_TruncationTolerated ==
    \A n \in 1..Len(turns) :
        (turns[n].fullText # <<>> /\ IsPrefix(turns[n].fullText, TextRecord))
            => /\ turns[n].pc # "failed"
               /\ turns[n].wire # <<>> => turns[n].pc \in {"read", "upsert"}
               /\ turns[n].nToast = 0
               /\ \/ \A f \in RecordFields :
                        DiagField(ui.diagnosis, f) = DiagField(turns[n].cl.diagnosis, f)
                  \/ /\ ExpectedRegion(turns[n].fullText) # None
                     /\ RegionParse(turns[n].fullText).ok
                     /\ \A f \in RecordFields :
                          DiagField(ui.diagnosis, f)
                            = DiagField(Some(DiagnosisOf(<<>>,
                                  RegionParse(turns[n].fullText).obj)), f)

\* C17 happens: turns of each kind have read the tagged record up to an
\* offset inside the object, nothing was parsed and the loop is still
\* reading.
C17_Witness ==
    \E n \in 1..Len(turns) :
        /\ turns[n].pc = "read"
        /\ turns[n].kind \in FollowUpKinds
        /\ IsPrefix(turns[n].fullText, TextRecord)
        /\ Len(turns[n].fullText) = 40
        /\ turns[n].wire # <<>>
        /\ ExpectedRegion(turns[n].fullText) # None
        /\ ~RegionParse(turns[n].fullText).ok
        /\ turns[n].nUpsert = 0

\* The buffer holds a closed <json> region that parses to a record.
CompleteRecord(b) ==
    /\ FirstOf(b, <<TagJsonOpen>>, 1) # 0
    /\ Includes(b, TagJsonClose)
    /\ RegionParse(b).ok
    /\ Truthy(Field(RegionParse(b).obj, KeyDiagnosis))

\* C18: whatever chunks and earlier snapshots led to a complete buffer, and
\* also when the final pass parses it once more, the record a turn has set
\* and committed is the one object that the extraction gives for the buffer.
C18_ParseDependsOnBufferOnly ==
    \A n \in 1..Len(turns) :
        (Snapshotted(turns[n]) /\ CompleteRecord(turns[n].fullText))
            => /\ \A f \in RecordFields :
                    DiagField(ui.diagnosis, f)
                      = DiagField(Some(DiagnosisOf(<<>>, RegionParse(turns[n].fullText).obj)), f)
               /\ turns[n].nUpsert >= 1
               /\ conversation # None
               /\ \A f \in RecordFields :
                    DiagField(conversation[1].diagnosis_json, f) = DiagField(ui.diagnosis, f)

\* C18 happens: an initial turn that launched the search parsed the complete
\* buffer in a snapshot and again in its final pass, and both passes
\* committed the same record.
C18_Witness ==
    \E n \in 1..Len(turns) :
        /\ turns[n].kind = "initial" /\ turns[n].pc = "done"
        /\ turns[n].fullText = TextRecord
        /\ turns[n].nGeo = 1 /\ turns[n].nUpsert = 2
        /\ DiagField(conversation[1].diagnosis_json, "diagnosis") = <<"X">>

\* The buffer after the first k chunks of the scenario.
ChunksRead(k) == Flatten(SubSeq(StreamChunks, 1, k))

TextCheck == <<"C","h","e","c","k">>

TextCheckingPipe == <<"C","h","e","c","k","i","n","g"," ","p","i","p","e">>

TextLeak == <<"L","e","a","k">>

TextPlumber == <<"P","l","u","m","b","e","r">>

\* C19: an initial turn over the four chunks of the scenario has the
\* reasoning "Check" after chunk 1 and "Checking pipe" after chunk 2, has no
\* record after chunks 1 to 3, and after chunk 4 has the record with
\* diagnosis "Leak" and trade "Plumber", complete and committed.
C19_ChunkScenario ==
    \A n \in 1..Len(turns) :
        (turns[n].kind = "initial" /\ Snapshotted(turns[n]))
            => /\ turns[n].fullText = ChunksRead(1)
                    => /\ turns[n].currentThinking = TextCheck
                       /\ DiagField(ui.diagnosis, "thinking") = TextCheck
               /\ turns[n].fullText \in {ChunksRead(2), ChunksRead(3)}
                    => /\ turns[n].currentThinking = TextCheckingPipe
                       /\ DiagField(ui.diagnosis, "thinking") = TextCheckingPipe
               /\ turns[n].fullText \in {ChunksRead(1), ChunksRead(2), ChunksRead(3)}
                    => /\ \A f \in RecordFields : DiagField(ui.diagnosis, f) = <<>>
                       /\ turns[n].nUpsert = 0
                       /\ conversation = None
               /\ turns[n].fullText = ChunksRead(4)
                    => /\ DiagField(ui.diagnosis, "diagnosis") = TextLeak
                       /\ DiagField(ui.diagnosis, "trade") = TextPlumber
                       /\ DiagField(ui.diagnosis, "thinking") = TextCheckingPipe
                       /\ turns[n].nUpsert >= 1
                       /\ DiagField(conversation[1].diagnosis_json, "diagnosis") = TextLeak
                       /\ DiagField(conversation[1].diagnosis_json, "trade") = TextPlumber

\* C19 happens: the turn has read the first three chunks, one at a time or
\* merged, with reasoning and without a record; the fourth is still to come.
C19_Witness ==
    \E n \in 1..Len(turns) :
        /\ turns[n].kind = "initial" /\ turns[n].pc = "read"
        /\ turns[n].fullText = ChunksRead(3)
        /\ Len(turns[n].wire) = 1
        /\ turns[n].currentThinking = TextCheckingPipe
        /\ DiagField(ui.diagnosis, "diagnosis") = <<>>

\* The text trimmed and in lower case.
Normalised(s) == [k \in 1..Len(Trim(s)) |-> Lower(Trim(s)[k])]

\* Does the object differ from the record in diagnosis or trade, white space
\* around them and case apart?
Differs(prev, obj) ==
    \/ Normalised(DiagField(prev, "diagnosis")) # Normalised(Field(obj, KeyDiagnosis))
    \/ Normalised(DiagField(prev, "trade")) # Normalised(Field(obj, KeyTrade))

\* C20: once a follow-up or regenerate turn has parsed a record, the
\* hasUpdatedDiagnosis flag of its assistant message, in the list and in the
\* inserted row, says whether the record differs in normalised diagnosis or
\* trade from the diagnosis of the page when the handler was called: false
\* for trade "plumber" against "Plumber", true for "Electrician".
C20_HasUpdatedDiagnosis ==
    \A n \in 1..Len(turns) :
        (/\ turns[n].kind \in FollowUpKinds
         /\ Snapshotted(turns[n])
         /\ FirstOf(turns[n].fullText, <<TagJsonOpen>>, 1) # 0
         /\ RegionParse(turns[n].fullText).ok
         /\ Truthy(Field(RegionParse(turns[n].fullText).obj, KeyDiagnosis)))
            => /\ ui.messages # <<>>
               /\ ui.messages[Len(ui.messages)].hasUpdatedDiagnosis
                    = Differs(turns[n].cl.diagnosis, RegionParse(turns[n].fullText).obj)
               /\ IsPrefix(TextLowerTrade, turns[n].fullText)
                    => ~ui.messages[Len(ui.messages)].hasUpdatedDiagnosis
               /\ IsPrefix(TextOtherTrade, turns[n].fullText)
                    => ui.messages[Len(ui.messages)].hasUpdatedDiagnosis
               /\ turns[n].nInsert >= 1
                    => dbMessages[Len(dbMessages)].has_updated_diagnosis
                         = ui.messages[Len(ui.messages)].hasUpdatedDiagnosis

\* C20 happens: on the stored diagnosis Leak / Plumber a follow-up turn has
\* read and committed the record with trade "plumber", and its message is
\* not flagged.
C20_Witness ==
    \E n \in 1..Len(turns) :
        /\ turns[n].kind \in FollowUpKinds
        /\ turns[n].pc = "done" /\ turns[n].nInsert = 1
        /\ turns[n].fullText = TextLowerTrade
        /\ DiagField(turns[n].cl.diagnosis, "trade") = TextPlumber
        /\ DiagField(ui.diagnosis, "trade") = <<"p","l","u","m","b","e","r">>
        /\ ~ui.messages[Len(ui.messages)].hasUpdatedDiagnosis
        /\ ~dbMessages[Len(dbMessages)].has_updated_diagnosis

\* No object with a non-empty diagnosis can be parsed from any prefix of the
\* body of the turn.
NeverARecord(t) ==
    \A k \in 1..Len(Body(t)) :
        LET b == SubSeq(Body(t), 1, k)
        IN  ExpectedRegion(b) # None /\ RegionParse(b).ok
                => ~Truthy(Field(RegionParse(b).obj, KeyDiagnosis))

C22_LoadIsBounded ==
    /\ (ui.mounted /\ loadPc = "loading") ~> (ui.isLoaded \/ ~ui.mounted)
    /\ [][(loadPc = "timedout" /\ loadPc' = "done") => ui' = ui]_vars

\* C22 happens: the timer won on a page whose store holds a conversation,
\* the fetch settled afterwards, and the page is loaded without the stored
\* diagnosis and messages.
C22_Witness ==
    /\ loadPc = "done"
    /\ conversation = Some(StoredRow) /\ dbMessages = StoredMessages
    /\ ui.mounted /\ ui.isLoaded
    /\ ui.diagnosis = None /\ ui.messages = <<>>
    /\ turns = <<>>

\* C23: the step in which the provider search of a request fails leaves the
\* provider list and the stored row as they were and the providers-loading
\* flag false; the step in which the position is denied (the one that raises
\* the toast) changes nothing of the page and of the store and ends the
\* request, the other requests staying as they are and no new one made.
C23_SideFailureKeepsState ==
    [][/\ \A k \in 1..Len(geoRequests) :
            (/\ Len(geoRequests') = Len(geoRequests)
             /\ geoRequests[k].pc = "providers"
             /\ geoRequests'[k].pc = "location" /\ geoRequests'[k].error)
                => /\ ui'.providers = ui.providers
                   /\ ui'.userLocation = ui.userLocation
                   /\ ~ui'.isLoadingProviders
                   /\ conversation' = conversation
       /\ sideToasts' = sideToasts + 1
            => /\ ui' = ui
               /\ conversation' = conversation
               /\ \E k \in 1..Len(geoRequests) :
                     /\ geoRequests[k].pc = "asked"
                     /\ geoRequests' = RemoveAt(geoRequests, k)]_vars

\* C23 happens: the page holds the provider list of an earlier search, and
\* the search of a later request has failed and left it there.
C23_Witness ==
    \E k \in 1..Len(geoRequests) :
        /\ geoRequests[k].pc = "location" /\ geoRequests[k].error
        /\ ui.mounted
        /\ ui.providers = Providers1
        /\ ~ui.isLoadingProviders


\* C24: when the geocode request of a location workflow is rejected or is
\* answered without an address, the step that ends the workflow sets the
\* location of the page to the coordinates with the address "Current
\* Location" and saves it, and the provider list, which the search started in
\* parallel has settled, and its loading flag stay as that search left them.
C24_GeocodeFailureCompletes ==
    [][\A k \in 1..Len(geoRequests), o \in {"noaddress", "rejected"} :
          LocationDone(k, o) =>
              /\ ui.mounted => ui'.userLocation = Some(Location1)
              /\ conversation' # None /\ conversation'[1].loc = Some(Location1)
              /\ ui'.providers = ui.providers
              /\ ui'.isLoadingProviders = ui.isLoadingProviders
              /\ Len(geoRequests') = Len(geoRequests) - 1]_vars

\* C24 happens: the workflow has ended with the placeholder address while
\* the providers of its search are on the page.
C24_Witness ==
    /\ ui.mounted
    /\ ui.userLocation = Some(Location1)
    /\ ui.providers = Providers1
    /\ geoRequests = <<>>

\* ------------------------------------------------------------------------
\* One turn against a store that may fail
\* ------------------------------------------------------------------------

\* A conversation of one turn in which the upsert and the insert of a commit
\* may fail.
NextStore ==
    \/ Mount
    \/ \E ok \in BOOLEAN : LoadDone(ok)
    \/ RenderQueued
    \/ turns = <<>> /\ startInitialDiagnosis
    \/ turns = <<>> /\ \E text \in UserTexts : handleSend(text)
    \/ turns = <<>> /\ \E i \in 1..Len(ui.messages) : handleRegenerate(i)
    \/ \E n \in 1..Len(turns), stream \in Streams : FetchOk(n, stream)
    \/ \E n \in 1..Len(turns), w \in WriteOutcomes :
          \E j \in 0..Len(turns[n].wire) : ReadInitial(n, j, w)
    \/ \E n \in 1..Len(turns), w \in WriteOutcomes :
          \E j \in 0..Len(turns[n].wire) : ReadFollowUp(n, j, w)
    \/ \E n \in 1..Len(turns), stored \in BOOLEAN : UpsertDone(n, stored)

SpecStore == Init /\ [][NextStore]_vars

\* C25: however the upsert and the insert of its commits ended, a turn that
\* has committed shows the record its buffer gives, and once it is over its
\* busy flag is off; and the step in which the upsert settles, the insert
\* following it or not, leaves the record and the messages of the page as the
\* pass before the write had set them.
C25_StoreFailureKeepsMemory ==
    /\ [](\A n \in 1..Len(turns) :
            turns[n].nUpsert >= 1
                => /\ ui.diagnosis # None
                   /\ \A f \in RecordFields :
                        DiagField(ui.diagnosis, f)
                          = DiagField(Some(DiagnosisOf(<<>>, RegionParse(turns[n].fullText).obj)), f)
                   /\ turns[n].pc = "done" => ~ui[BusyFlag(turns[n].kind)])
    /\ [][\A n \in 1..Len(turns) :
            (turns[n].pc = "upsert" /\ turns'[n].pc # "upsert")
                => /\ ui'.diagnosis = ui.diagnosis
                   /\ ui'.messages = ui.messages]_vars

\* C25 happens: a turn is over whose upsert failed, so that the store holds
\* no record, and whose insert failed, so that the store holds no message,
\* while the page shows the record.
C25_Witness ==
    \E n \in 1..Len(turns) :
        /\ turns[n].pc = "done" /\ turns[n].nUpsert >= 1
        /\ turns[n].upsert = "error" /\ turns[n].nInsert >= 1
        /\ conversation = None
        /\ dbMessages = <<>>
        /\ DiagField(ui.diagnosis, "diagnosis") # <<>>
        /\ ~ui.isDiagnosing

\* C25 happens also when the promise of the upsert rejects: the insert is
\* skipped and the turn goes on to its end.
C25_WitnessRejected ==
    \E n \in 1..Len(turns) :
        /\ turns[n].pc = "done" /\ turns[n].upsert = "rejected" /\ turns[n].nInsert = 0
        /\ DiagField(ui.diagnosis, "diagnosis") # <<>>

\* ------------------------------------------------------------------------
\* One turn and the thumbs of the messages
\* ------------------------------------------------------------------------

\* The number of messages that carry a thumb at one time.
MaxThumbs == 2

Thumbed(messages) == {k \in 1..Len(messages) : messages[k].feedback # "none"}

\* A conversation of one turn during which the thumbs of the messages are
\* pressed, on at most MaxThumbs messages at a time.
NextFeedback ==
    \/ Mount
    \/ \E ok \in BOOLEAN : LoadDone(ok)
    \/ RenderQueued
    \/ turns = <<>> /\ startInitialDiagnosis
    \/ turns = <<>> /\ \E text \in UserTexts : handleSend(text)
    \/ turns = <<>> /\ \E i \in 1..Len(ui.messages) : handleRegenerate(i)
    \/ \E n \in 1..Len(turns) : FetchOk(n, StreamTagged)
    \/ \E n \in 1..Len(turns) : \E j \in 0..Len(turns[n].wire) : ReadInitial(n, j, "ok")
    \/ \E n \in 1..Len(turns) : \E j \in 0..Len(turns[n].wire) : ReadFollowUp(n, j, "ok")
    \/ \E n \in 1..Len(turns) : UpsertDone(n, TRUE)
    \/ \E i \in 1..Len(ui.messages), type \in FeedbackTypes :
          /\ Cardinality(Thumbed(ui.messages) \cup {i}) <= MaxThumbs
          /\ handleMessageFeedback(i, type)

SpecFeedback == Init /\ [][NextFeedback]_vars

\* The message without its feedback.
WithoutFeedback(m) == [f \in (DOMAIN m) \ {"feedback"} |-> m[f]]

\* C26: a step of handleMessageFeedback(i, t) sets the feedback of message i
\* to null when it was t and to t otherwise, leaves every other field of
\* message i, every other message and the length and order of the list as
\* they were, and changes nothing else of the page; and on every list of
\* messages the page can show, applying the update twice with the same t to
\* a message whose feedback is null or t gives the feedback it had.
C26_FeedbackFrame ==
    /\ [][\A i \in 1..Len(ui.messages), t \in FeedbackTypes :
            handleMessageFeedback(i, t)
                => /\ Len(ui'.messages) = Len(ui.messages)
                   /\ ui'.messages[i].feedback
                        = (IF ui.messages[i].feedback = t THEN "none" ELSE t)
                   /\ WithoutFeedback(ui'.messages[i]) = WithoutFeedback(ui.messages[i])
                   /\ \A k \in 1..Len(ui.messages) : k # i => ui'.messages[k] = ui.messages[k]
                   /\ [ui' EXCEPT !.messages = ui.messages] = ui]_vars
    /\ [](\A i \in 1..Len(ui.messages), t \in FeedbackTypes :
            ui.messages[i].feedback \in {"none", t}
                => SetFeedback(SetFeedback(ui.messages, i, t), i, t) = ui.messages)

\* C26 happens: of two messages the second has the thumb up and the first the
\* thumb down, the turn that wrote the second being over.
C26_Witness ==
    /\ Len(ui.messages) >= 2
    /\ ui.messages[Len(ui.messages)].feedback = "up"
    /\ ui.messages[Len(ui.messages)].content # <<>>
    /\ ui.messages[1].feedback = "down"
    /\ \E n \in 1..Len(turns) : turns[n].pc = "done"

\* The places of the closing braces of the text.
Braces(cleaned) == {i \in 1..Len(cleaned) : cleaned[i] = "}"}

\* The cleaned JSON fragment of the buffer.
Fragment(b) == Cleaned(ExpectedRegion(b)[1])

\* The fragment up to and with its last closing brace, and the fragment
\* itself when it has none.
UpToLastBrace(cleaned) ==
    IF Braces(cleaned) = {} THEN cleaned ELSE SubSeq(cleaned, 1, MaxOf(Braces(cleaned)))

\* The objects that the fragment gives when it is read up to one of its
\* closing braces.
ClosedObjects(cleaned) ==
    {JsonParse(SubSeq(cleaned, 1, k)).obj :
        k \in {i \in Braces(cleaned) : JsonParse(SubSeq(cleaned, 1, i)).ok}}

\* C27: for the buffer of every snapshot with a <json> tag, the text handed
\* to the parser is the cleaned fragment itself when the closing tag is in
\* the buffer or the fragment ends with '}', and otherwise the fragment up to
\* and with its last '}' (itself when it has none); and every member of the
\* record the page shows is as it was when the turn began or a member of an
\* object that is closed at a '}' of the fragment.
C27_TailRepair ==
    \A n \in 1..Len(turns) :
        (Snapshotted(turns[n]) /\ FirstOf(turns[n].fullText, <<TagJsonOpen>>, 1) # 0)
            => /\ ToParse(Fragment(turns[n].fullText), Includes(turns[n].fullText, TagJsonClose))
                    = (IF \/ Includes(turns[n].fullText, TagJsonClose)
                          \/ EndsWith(Fragment(turns[n].fullText), RBrace)
                       THEN Fragment(turns[n].fullText)
                       ELSE UpToLastBrace(Fragment(turns[n].fullText)))
               /\ \A f \in RecordFields :
                    \/ DiagField(ui.diagnosis, f) = DiagField(turns[n].cl.diagnosis, f)
                    \/ \E obj \in ClosedObjects(Fragment(turns[n].fullText)) :
                          DiagField(ui.diagnosis, f) = DiagField(Some(DiagnosisOf(<<>>, obj)), f)

\* C27 happens: the buffer ends in a half-written member after a '}', the
\* text cut at that '}' does not parse, and the page shows no record of it.
C27_Witness ==
    \E n \in 1..Len(turns) :
        /\ turns[n].pc = "read" /\ turns[n].kind = "initial"
        /\ IsPrefix(turns[n].fullText, TextBraceInside)
        /\ FirstOf(turns[n].fullText, <<TagJsonOpen>>, 1) # 0
        /\ ~Includes(turns[n].fullText, TagJsonClose)
        /\ ~EndsWith(Fragment(turns[n].fullText), RBrace)
        /\ Braces(Fragment(turns[n].fullText)) # {}
        /\ ~JsonParse(UpToLastBrace(Fragment(turns[n].fullText))).ok
        /\ ui.diagnosis = None

\* C27 happens also where the cut text parses: the object is closed and the
\* closing tag is half-written.
C27_WitnessClosed ==
    \E n \in 1..Len(turns) :
        /\ turns[n].pc = "read"
        /\ IsPrefix(turns[n].fullText, TextBraceInside)
        /\ FirstOf(turns[n].fullText, <<TagJsonOpen>>, 1) # 0
        /\ ~Includes(turns[n].fullText, TagJsonClose)
        /\ ~EndsWith(Fragment(turns[n].fullText), RBrace)
        /\ JsonParse(UpToLastBrace(Fragment(turns[n].fullText))).ok
        /\ DiagField(ui.diagnosis, "trade") = <<"T">>

\* The trade of the record that the whole body of the turn holds.
FullTrade(t) == Field(RegionParse(Body(t)).obj, KeyTrade)

\* The place in the body of the quote that closes the value of its first
\* "trade" member.
PairEnd(body) ==
    LET i     == IndexFrom(body, QuotedTrade, 1)
        colon == SkipWs(body, i + Len(QuotedTrade))
        open  == SkipWs(body, colon + 1)
    IN  ParseString(body, open).next - 1

\* C28: in an initial turn whose body is a tagged record with a trade, the
\* search has been launched once the buffer reaches the quote that closes
\* the value of the "trade" member, whether the fragment parses or not, and
\* not before; and every request the turn launched carries the whole trade.
C28_EarlyTriggerOnCompletePair ==
    \A n \in 1..Len(turns) :
        (/\ turns[n].kind = "initial" /\ Snapshotted(turns[n])
         /\ CompleteRecord(Body(turns[n]))
         /\ Truthy(FullTrade(turns[n])))
            => /\ Len(turns[n].fullText) >= PairEnd(Body(turns[n])) => turns[n].nGeo >= 1
               /\ turns[n].nGeo >= 1 => Len(turns[n].fullText) >= PairEnd(Body(turns[n]))
               /\ \A k \in 1..Len(geoRequests) : geoRequests[k].trade = FullTrade(turns[n])

\* C29: a turn holds a commit whose upsert is not settled exactly while it
\* awaits that upsert; while it awaits, its buffer, its stream and its count
\* of commits stay as they are; its buffer changes only in a read of the
\* turn, by the pieces at the head of its stream; a step issues at most one
\* commit of it, and the insert of a commit is issued in the step that
\* settles its upsert.
C29_SnapshotsInOrder ==
    /\ [](\A n \in 1..Len(turns) : (turns[n].pending # None) <=> (turns[n].pc = "upsert"))
    /\ [][\A n \in 1..Len(turns) :
            /\ n <= Len(turns')
            /\ turns[n].pc = "upsert"
                  => /\ turns'[n].fullText = turns[n].fullText
                     /\ turns'[n].wire = turns[n].wire
                     /\ turns'[n].nUpsert = turns[n].nUpsert
                     /\ turns'[n].currentThinking = turns[n].currentThinking
            /\ turns'[n].fullText # turns[n].fullText
                  => /\ turns[n].pc = "read"
                     /\ IsPrefix(turns[n].fullText, turns'[n].fullText)
                     /\ Body(turns'[n]) = Body(turns[n])
            /\ turns'[n].nUpsert # turns[n].nUpsert
                  => /\ turns[n].pc = "read"
                     /\ turns'[n].nUpsert = turns[n].nUpsert + 1
                     /\ turns'[n].pc = "upsert"
            /\ turns'[n].nInsert # turns[n].nInsert
                  => /\ turns[n].pc = "upsert"
                     /\ turns'[n].nInsert = turns[n].nInsert + 1]_vars

\* C29 happens: a turn awaits the upsert of the commit of a snapshot while
\* pieces of its stream are waiting to be read.
C29_Witness ==
    \E n \in 1..Len(turns) :
        /\ turns[n].pc = "upsert" /\ ~turns[n].atEnd
        /\ turns[n].wire # <<>>
        /\ turns[n].pending # None

\* ------------------------------------------------------------------------
\* One turn to its end
\* ------------------------------------------------------------------------

\* A conversation of one turn that can fail at its fetch and at a read, and
\* whose store may fail.
NextLive ==
    \/ NextStore
    \/ \E n \in 1..Len(turns), outcome \in FetchFailures : FetchFail(n, outcome)
    \/ \E n \in 1..Len(turns) : ReadError(n)

\* The awaited upsert of the turn settles, one way or the other.
UpsertSettles == \E n \in 1..Len(turns), stored \in BOOLEAN : UpsertDone(n, stored)

\* The request to the store settles; the stream need not ever end.
SpecLive == Init /\ [][NextLive]_vars /\ WF_vars(UpsertSettles)

\* The stream of the turn has ended, or its request or a read of it failed.
Over(t) == t.pc \in {"done", "failed"} \/ (t.pc = "upsert" /\ t.atEnd)

\* Is the page busy with a turn of this kind?
Busy(kind) == IF kind = "initial" THEN ui.isDiagnosing ELSE ui.isResponding

C31_ParseMissKeepsRecord ==
    [][\A n \in 1..Len(turns) :
          (/\ turns[n].pc = "read"
           /\ turns'[n] # turns[n]
           /\ Truthy(DiagField(ui.diagnosis, "diagnosis"))
           /\ turns'[n].fullText # <<>>
           /\ ExpectedRegion(turns'[n].fullText) # None
           /\ ~RegionParse(turns'[n].fullText).ok)
              => /\ \A f \in RecordFields : DiagField(ui'.diagnosis, f) = DiagField(ui.diagnosis, f)
                 /\ turns'[n].nToast = 0
                 /\ turns'[n].pc = (IF turns[n].wire = <<>> THEN "done" ELSE "read")]_vars

\* C31 happens: the turn has shown the record of an earlier snapshot, the
\* buffer it has now gives no object, and the record is still shown.
C31_Witness ==
    \E n \in 1..Len(turns) :
        /\ turns[n].kind = "initial" /\ turns[n].pc = "read"
        /\ turns[n].fullText # <<>> /\ IsPrefix(turns[n].fullText, TextLateBrace)
        /\ ExpectedRegion(turns[n].fullText) # None
        /\ ~RegionParse(turns[n].fullText).ok
        /\ DiagField(ui.diagnosis, "diagnosis") = <<"X">>
        /\ DiagField(ui.diagnosis, "trade") = <<"Y">>

\* ------------------------------------------------------------------------
\* The load of a page that finds an image in the cache
\* ------------------------------------------------------------------------

\* The load, and an upload whose image does not fit into sessionStorage.
NextCache ==
    \/ NextLoad
    \/ UploadDone(FALSE)

\* The sessions of the load, opened on each store the page can find.
SpecCache == InitCache /\ [][NextCache]_vars

\* getImageData returns a record.
Pending(store) == getImageData(store) # None

\* C32: the step that ends the load of the init effect, by the answer of the
\* store, its failure or the timer, clears the pending image exactly when
\* there is one and it belongs to another conversation or the load returned
\* a message; and no other step of the page clears it.
C32_ImageCacheCleared ==
    [][/\ \A ok \in BOOLEAN :
            (LoadDone(ok) /\ Pending(imageStore))
                => (~Pending(imageStore')
                      <=> (~ForThisId(getImageData(imageStore)[1]) \/ (ok /\ dbMessages # <<>>)))
       /\ (LoadTimeout /\ Pending(imageStore))
            => (~Pending(imageStore') <=> ~ForThisId(getImageData(imageStore)[1]))
       /\ (Pending(imageStore) /\ ~Pending(imageStore'))
            => (loadPc = "loading" /\ loadPc' # "loading")]_vars

\* C32 happens: the load has timed out and the image of this conversation is
\* still in the cache.
C32_Witness ==
    /\ loadPc = "timedout"
    /\ getImageData(imageStore) = Some(Image1)
    /\ ui.isLoaded

\* The records of the model.
Images == {Image1, Image2, ImageOther}

\* C33: on every store the page can be in, getImageData after setImageData
\* returns the record that was set, whether the write to sessionStorage
\* succeeds or throws; a second setImageData replaces the first record;
\* getImageData after clearImageData returns null when sessionStorage then
\* holds no entry; and getImageData returns a record or null, it does not
\* throw, on a store without sessionStorage or with an entry that does not
\* parse.
C33_ImageStoreLaws ==
    /\ \A image \in Images, writes \in BOOLEAN :
         /\ getImageData(setImageData(imageStore, image, writes)) = Some(image)
         /\ \A later \in Images, again \in BOOLEAN :
              getImageData(setImageData(setImageData(imageStore, image, writes), later, again))
                  = Some(later)
    /\ clearImageData(imageStore).session = None
         => getImageData(clearImageData(imageStore)) = None
    /\ getImageData(imageStore) \in {None} \cup {Some(image) : image \in Images}

\* C33 happens: an upload has set a record whose write to sessionStorage
\* threw, over an entry that does not parse.
C33_Witness ==
    /\ imageStore = [memory |-> Some(Image2), session |-> Some(Corrupt)]
    /\ ui.imageSrc = Some(Image2)

\* C33 happens: the page was opened on a store without sessionStorage.
C33_WitnessDenied ==
    /\ imageStore = [memory |-> None, session |-> Denied]
    /\ loadPc = "done"

\* C34: when a provider search of the re-fetch effect ends with an empty
\* list or with a failure, the effect is not due again: the return of the
\* loading flag to false does not start the next search.
C34_RefetchEnds ==
    [][\A k \in 1..Len(geoRequests) : \A outcome \in {"empty", "error"} :
          RefetchResult(k, outcome) => ~RefetchDue(ui')]_vars

\* C35: a read of the stream of a follow-up or regenerate turn leaves every
\* user message of the list as it is; what it writes goes into an assistant
\* message.
C35_StreamWritesOwnPlaceholder ==
    [][(\E n \in 1..Len(turns) :
           /\ turns[n].kind \in {"send", "regenerate"}
           /\ turns[n].pc = "read"
           /\ turns'[n] # turns[n])
          => \A k \in 1..Len(ui.messages) :
                (k <= Len(ui'.messages) /\ ui.messages[k].role = "user")
                    => ui'.messages[k] = ui.messages[k]]_vars

\* C36: while the page shows a failed initial turn, the one-shot guard is
\* set, hasStartedDiagnosis is set or its update to true is queued, and the
\* session has no other initial turn: the effect has not started the
\* diagnosis again.
C36_NoAutomaticRestart ==
    \A n \in 1..Len(turns) :
        (turns[n].kind = "initial" /\ turns[n].pc = "failed" /\ ui.mounted)
            => /\ diagnosisStartedRef
               /\ IF queuedStarted = None THEN ui.hasStartedDiagnosis ELSE queuedStarted[1]
               /\ \A m \in 1..Len(turns) : m # n => turns[m].kind # "initial"

\* C36 happens: the initial turn has failed and every other condition of the
\* effect holds.
C36_Witness ==
    /\ \E n \in 1..Len(turns) : turns[n].kind = "initial" /\ turns[n].pc = "failed"
    /\ ui.mounted /\ ui.isLoaded /\ ui.imageSrc # None
    /\ ui.messages = <<>> /\ ui.diagnosis = None
    /\ ui.hasStartedDiagnosis /\ queuedStarted = None

\* ------------------------------------------------------------------------
\* The attachments of the footer
\* ------------------------------------------------------------------------

\* A session of one follow-up turn in which files are chosen, read and
\* removed.
NextAttach ==
    \/ Mount
    \/ \E ok \in BOOLEAN : LoadDone(ok)
    \/ \E n \in 1..MaxFiles : handleFilesChosen(n)
    \/ \E outcome \in ReadOutcomes \cup {"nothing"} : FileRead(outcome)
    \/ \E i \in 1..Len(ui.attachments) : removeAttachment(i)
    \/ turns = <<>> /\ \E text \in UserTexts : handleSend(text)
    \/ Navigate

SpecAttach == Init /\ [][NextAttach]_vars

\* C37: the list of pending attachments never holds more than 5 items.
C37_AttachmentsAtMostFive == Len(ui.attachments) <= AttachmentLimit

\* C37 happens: the list is full and reads of a later selection are still
\* out.
C37_Witness ==
    /\ Len(ui.attachments) = AttachmentLimit
    /\ fileReads > 0
    /\ \E k \in 1..Len(ui.attachments) : ui.attachments[k] = "url"

\* C38: once the buffer of an initial or follow-up turn has the tagged
\* region and the closing tag, every longer buffer of the turn has the
\* closing tag too and the same tagged region.
C38_CompleteIsStable ==
    [][\A n \in 1..Len(turns) :
          (/\ turns[n].kind \in {"initial", "send"}
           /\ JsonTagMatch(turns[n].fullText).found
           /\ Includes(turns[n].fullText, TagJsonClose)
           /\ turns'[n].fullText # turns[n].fullText)
              => /\ Includes(turns'[n].fullText, TagJsonClose)
                 /\ JsonTagMatch(turns'[n].fullText) = JsonTagMatch(turns[n].fullText)]_vars

\* C39: when the follow-up or regenerate turn of the session is done, every
\* assistant message of the list has content: no empty placeholder is left.
C39_NoEmptyPlaceholderLeft ==
    \A n \in 1..Len(turns) :
        (turns[n].kind \in {"send", "regenerate"} /\ turns[n].pc = "done")
            => \A k \in 1..Len(ui.messages) :
                   ui.messages[k].role = "assistant" => ui.messages[k].content # <<>>

\* C40: when the regenerate turn of the session is done and has stored its
\* assistant message, the rows of the conversation do not hold both the
\* message that was regenerated and, after it, the new one.
C40_RegenerateReplacesStoredRow ==
    \A n \in 1..Len(turns) :
        (turns[n].kind = "regenerate" /\ turns[n].pc = "done" /\ turns[n].nInsert > 0)
            => ~\E j, k \in 1..Len(dbMessages) :
                   /\ j < k
                   /\ dbMessages[j].role = "assistant"
                   /\ dbMessages[j].content = turns[n].messages[turns[n].index].content
                   /\ dbMessages[k].role = "assistant"
                   /\ dbMessages[k].content = ui.messages[Len(ui.messages)].content
====
